---- MODULE Spec2Model ----
(***************************************************************************)
(* Incremental-month consolidation of sell-out data for the three large    *)
(* clients (PROMOTORA, MAKRO, FARMATODO): period arithmetic, the client    *)
(* history tracker, the per-client reshapers, the store/city resolvers and *)
(* the two merges of consolidar_clientes_grandes.py.                       *)
(*                                                                         *)
(* Text is modelled as a sequence of tokens: a token is a word (a run of   *)
(* characters holding neither a blank nor a hyphen), one blank " " or one  *)
(* hyphen "-".  A missing value (None / NaN / NaT) is the string NaN.       *)
(***************************************************************************)
EXTENDS Integers, Sequences, FiniteSets, TLC

VARIABLES
    pc,                    \* position of the script / of the function harness
    corrida,               \* number of runs started so far
    archivo_sell_out,      \* persisted aggregate history (Tiendas Sell out.xlsx)
    archivo_ciudades,      \* persisted city-level history
    config,                \* per client: the file entry of this run
    datos,                 \* the dict returned by cargar_datos_clientes
    retornos,              \* values returned by the three reshapers in the last merge
    salida_sell_out,       \* aggregate table written by this run
    salida_ciudades,       \* city-level table written by this run
    historia_inicial,      \* the two histories before the first run
    anexados,              \* rows appended by the installed runs, in order
    llamada,               \* function harness: the call under test
    retorno                \* function harness: the value it returned

vars == <<pc, corrida, archivo_sell_out, archivo_ciudades, config, datos,
          retornos, salida_sell_out, salida_ciudades, historia_inicial,
          anexados, llamada, retorno>>

corridaVars == <<corrida, archivo_sell_out, archivo_ciudades, config, datos,
                 retornos, salida_sell_out, salida_ciudades, historia_inicial,
                 anexados>>

----------------------------------------------------------------------------
(* Bounds *)

MaxCorridas == 2
MaxFilasHistoria == 3
MaxLargoEtiqueta == 3
MaxLargoNombre == 4
MaxFilasVentas == 3
AnioBase == 2024
NumAnios == 4

----------------------------------------------------------------------------
(* Generic helpers *)

NaN == "NaN"

Ok(v) == [exc |-> "none", val |-> v]
Raise(e) == [exc |-> e]
Raised(r) == r.exc # "none"

RECURSIVE SumSeq(_)
SumSeq(s) == IF s = <<>> THEN 0 ELSE Head(s) + SumSeq(Tail(s))

RECURSIVE Flatten(_)
Flatten(ss) == IF ss = <<>> THEN <<>> ELSE Head(ss) \o Flatten(Tail(ss))

Range(s) == {s[i] : i \in DOMAIN s}

----------------------------------------------------------------------------
(* Period arithmetic *)

MesesValidos == <<"ENE", "FEB", "MAR", "ABR", "MAY", "JUN",
                  "JUL", "AGO", "SEP", "OCT", "NOV", "DIC">>

meses_mapping ==
    [m \in Range(MesesValidos) |->
        CASE m = "ENE" -> "1"  [] m = "FEB" -> "2"  [] m = "MAR" -> "3"
          [] m = "ABR" -> "4"  [] m = "MAY" -> "5"  [] m = "JUN" -> "6"
          [] m = "JUL" -> "7"  [] m = "AGO" -> "8"  [] m = "SEP" -> "9"
          [] m = "OCT" -> "10" [] m = "NOV" -> "11" [] m = "DIC" -> "12"]

\* int() of the decimal strings that meses_mapping holds
int(s) ==
    CASE s = "1" -> 1   [] s = "2" -> 2   [] s = "3" -> 3   [] s = "4" -> 4
      [] s = "5" -> 5   [] s = "6" -> 6   [] s = "7" -> 7   [] s = "8" -> 8
      [] s = "9" -> 9   [] s = "10" -> 10 [] s = "11" -> 11 [] s = "12" -> 12

numero_a_mes ==
    [n \in 1..12 |->
        CASE n = 1 -> "ENE"  [] n = 2 -> "FEB"  [] n = 3 -> "MAR"
          [] n = 4 -> "ABR"  [] n = 5 -> "MAY"  [] n = 6 -> "JUN"
          [] n = 7 -> "JUL"  [] n = 8 -> "AGO"  [] n = 9 -> "SEP"
          [] n = 10 -> "OCT" [] n = 11 -> "NOV" [] n = 12 -> "DIC"]

obtener_numero_mes(nombre_mes) ==
    IF nombre_mes \in DOMAIN meses_mapping
    THEN Ok(int(meses_mapping[nombre_mes]))
    ELSE Raise("KeyError")

SiguienteAnioSinAcarreo(anio_actual) == anio_actual

SiguienteAnio(anio_actual) == anio_actual + 1

obtener_siguiente_mes(mes_actual, anio_actual) ==
    IF mes_actual \notin DOMAIN meses_mapping
    THEN Raise("KeyError")
    ELSE LET num_mes_actual == int(meses_mapping[mes_actual])
         IN  IF num_mes_actual = 12
             THEN Ok(<<numero_a_mes[1], SiguienteAnio(anio_actual)>>)
             ELSE Ok(<<numero_a_mes[num_mes_actual + 1], anio_actual>>)

----------------------------------------------------------------------------
(* Client history tracker *)

\* pd.to_datetime(str(anio) + '-' + Mes.map(meses_mapping) + '-01'): a month
\* code outside the mapping maps to NaN and the date is NaT.
\* the key without the year
fecha_solo_mes(fila) ==
    IF fila.Mes \in DOMAIN meses_mapping
    THEN [nat |-> FALSE, ord |-> int(meses_mapping[fila.Mes])]
    ELSE [nat |-> TRUE, ord |-> 0]

fecha_ordenamiento(fila) ==
    IF fila.Mes \in DOMAIN meses_mapping
    THEN [nat |-> FALSE, ord |-> fila.anio * 12 + int(meses_mapping[fila.Mes])]
    ELSE [nat |-> TRUE, ord |-> 0]

\* an order in which NaT sorts first
FechaMenorIgualNaTPrimero(a, b) ==
    IF a.nat THEN TRUE ELSE (~b.nat /\ a.ord <= b.ord)

\* a sorts no later than b (NaT sorts last)
FechaMenorIgual(a, b) ==
    IF a.nat THEN b.nat ELSE (b.nat \/ a.ord <= b.ord)

\* insertion of x behind every element that sorts no later than x
RECURSIVE InsertarOrdenado(_, _)
InsertarOrdenado(ordenado, x) ==
    IF ordenado = <<>> THEN <<x>>
    ELSE LET n == Len(ordenado)
         IN  IF FechaMenorIgual(fecha_ordenamiento(ordenado[n]), fecha_ordenamiento(x))
             THEN Append(ordenado, x)
             ELSE Append(InsertarOrdenado(SubSeq(ordenado, 1, n - 1), x), ordenado[n])

\* DataFrame.sort_values('fecha_ordenamiento'): ascending, equal keys keep
\* their table order (the sort is an insertion sort below 17 rows)
RECURSIVE sort_values(_)
sort_values(df) ==
    IF df = <<>> THEN <<>>
    ELSE InsertarOrdenado(sort_values(SubSeq(df, 1, Len(df) - 1)), df[Len(df)])

PrimerRegistro(df_ordenado) == df_ordenado[1]

UltimoRegistro(df_ordenado) == df_ordenado[Len(df_ordenado)]

\* lines 86-94: the dict built from the last row of the sorted rows
InformacionDelRegistro(ultimo_registro, total_registros, siguiente) ==
    IF Raised(siguiente)
    THEN [error |-> "Error al procesar el archivo"]
    ELSE [cliente |-> ultimo_registro.cliente,
          ultimo_mes |-> ultimo_registro.Mes,
          ultimo_anio |-> ultimo_registro.anio,
          fecha_completa |-> <<ultimo_registro.Mes, ultimo_registro.anio>>,
          unidades |-> ultimo_registro.Unidades,
          total_registros |-> total_registros,
          siguiente_mes |-> siguiente.val]

SiguienteDelRegistro(ultimo_registro, total_registros) ==
    InformacionDelRegistro(ultimo_registro, total_registros,
        obtener_siguiente_mes(ultimo_registro.Mes, ultimo_registro.anio))

\* a lookup that starts a client without rows at the first month
InformacionConArranqueEnFrio(df_cliente) ==
    IF df_cliente = <<>>
    THEN [cliente |-> "", ultimo_mes |-> "DIC", ultimo_anio |-> AnioBase,
          fecha_completa |-> <<"DIC", AnioBase>>, unidades |-> 0,
          total_registros |-> 0, siguiente_mes |-> <<"ENE", AnioBase + 1>>]
    ELSE SiguienteDelRegistro(UltimoRegistro(sort_values(df_cliente)),
                              Len(df_cliente))

InformacionDelCliente(df_cliente) ==
    IF df_cliente = <<>>
    THEN [error |-> "No se encontraron registros para el cliente"]
    ELSE SiguienteDelRegistro(UltimoRegistro(sort_values(df_cliente)),
                              Len(df_cliente))

obtener_ultimo_mes_cliente(consolidado_sell_out, nombre_cliente) ==
    InformacionDelCliente(SelectSeq(consolidado_sell_out,
                                    LAMBDA f : f.cliente = nombre_cliente))

EsError(info) == "error" \in DOMAIN info

----------------------------------------------------------------------------
(* Text *)

NaNTexto == <<NaN>>

\* a cell that holds the integer 120 and not a text
NumeroEntero == <<"int(120)">>

isna(valor) == valor = NaNTexto

\* the value is a str: it has the methods strip, split and upper
EsTexto(valor) == valor # NaNTexto /\ valor # NumeroEntero

RECURSIVE lstrip(_)
lstrip(t) == IF t # <<>> /\ Head(t) = " " THEN lstrip(Tail(t)) ELSE t

RECURSIVE rstrip(_)
rstrip(t) ==
    IF t # <<>> /\ t[Len(t)] = " " THEN rstrip(SubSeq(t, 1, Len(t) - 1)) ELSE t

strip(t) == rstrip(lstrip(t))

\* str.split('-'): the pieces between the hyphens, empty pieces included
RECURSIVE split_guion(_)
split_guion(t) ==
    IF \A i \in DOMAIN t : t[i] # "-" THEN <<t>>
    ELSE LET k == CHOOSE i \in DOMAIN t :
                     t[i] = "-" /\ \A j \in 1..(i - 1) : t[j] # "-"
         IN  <<SubSeq(t, 1, k - 1)>> \o split_guion(SubSeq(t, k + 1, Len(t)))

\* str.split('-', 1): at most one cut, at the first hyphen
split_guion_1(t) ==
    IF \A i \in DOMAIN t : t[i] # "-" THEN <<t>>
    ELSE LET k == CHOOSE i \in DOMAIN t :
                     t[i] = "-" /\ \A j \in 1..(i - 1) : t[j] # "-"
         IN  <<SubSeq(t, 1, k - 1), SubSeq(t, k + 1, Len(t))>>

\* positions where the three characters " - " start
PosicionesEspGuionEsp(t) ==
    {i \in 1..(Len(t) - 2) : t[i] = " " /\ t[i + 1] = "-" /\ t[i + 2] = " "}

\* str.rsplit(' - ', 1): at most one cut, at the last " - "
rsplit_esp_guion_esp_1(t) ==
    IF PosicionesEspGuionEsp(t) = {} THEN <<t>>
    ELSE LET k == CHOOSE i \in PosicionesEspGuionEsp(t) :
                     \A j \in PosicionesEspGuionEsp(t) : j <= i
         IN  <<SubSeq(t, 1, k - 1), SubSeq(t, k + 3, Len(t))>>

\* str.upper() of one word of the vocabulary
upper_palabra(w) ==
    CASE w = "cali" -> "CALI"
      [] w = "Cali" -> "CALI"
      [] w = "norte" -> "NORTE"
      [] w = "Norte" -> "NORTE"
      [] w = "Makro" -> "MAKRO"
      [] w = "Calle" -> "CALLE"
      [] w = "Estacion" -> "ESTACION"
      [] w = "Poblado" -> "POBLADO"
      [] w = "Cumara" -> "CUMARA"
      [] w = "jul" -> "JUL"
      [] w = "ago" -> "AGO"
      [] w = "Jun" -> "JUN"
      [] w = "ene" -> "ENE"
      [] w = "Ene" -> "ENE"
      [] w = "dic" -> "DIC"
      [] w = "Dic" -> "DIC"
      [] w = "xyz" -> "XYZ"
      [] w = "promotora" -> "PROMOTORA"
      [] w = "makro" -> "MAKRO"
      [] w = "Farmatodo" -> "FARMATODO"
      [] OTHER -> w

upper(t) == [i \in DOMAIN t |-> upper_palabra(t[i])]

\* str.lower() of the month labels of the Makro sheet
lower_mes(w) ==
    CASE w = "Enero" -> "enero"           [] w = "Febrero" -> "febrero"
      [] w = "Marzo" -> "marzo"           [] w = "Abril" -> "abril"
      [] w = "Mayo" -> "mayo"             [] w = "Junio" -> "junio"
      [] w = "Julio" -> "julio"           [] w = "Agosto" -> "agosto"
      [] w = "Septiembre" -> "septiembre" [] w = "Octubre" -> "octubre"
      [] w = "Noviembre" -> "noviembre"   [] w = "Diciembre" -> "diciembre"
      [] OTHER -> w

----------------------------------------------------------------------------
(* Store / city resolvers *)

CIUDAD_DESCONOCIDA == <<"CIUDAD", " ", "DESCONOCIDA">>
TIENDA_UNICA == <<"Tienda", " ", "Unica">>

CARULLA_PRADERA_DE_POTOSI == <<"CARULLA", " ", "PRADERA", " ", "DE", " ", "POTOSI">>
CARULLA_MANIZALES == <<"CARULLA", " ", "MANIZALES">>
CARULLA_PLAZA_CLARO == <<"CARULLA", " ", "PLAZA", " ", "CLARO">>

\* a resolver without the table of fixed labels
NingunaExcepcion(nombre) == FALSE

\* lines 111-116: the labels with a fixed city
EsExcepcion(nombre) ==
    nombre \in {CARULLA_PRADERA_DE_POTOSI, CARULLA_MANIZALES, CARULLA_PLAZA_CLARO}

CiudadDeExcepcion(nombre) ==
    CASE nombre = CARULLA_PRADERA_DE_POTOSI -> <<"POTOSI">>
      [] nombre = CARULLA_MANIZALES -> <<"MANIZALES">>
      [] nombre = CARULLA_PLAZA_CLARO -> <<"BOGOTA">>

\* the city taken for the store and the store for the city
CiudadTiendaPorGuion(partes) == <<partes[2], partes[1]>>

\* lines 120-122: tienda = partes[0], ciudad = partes[1]
TiendaCiudadPorGuion(partes) == <<partes[1], partes[2]>>

\* lines 107-124, for a label that was stripped
SepararNombre(nombre) ==
    IF EsExcepcion(nombre)
    THEN <<nombre, CiudadDeExcepcion(nombre)>>
    ELSE IF \E i \in DOMAIN nombre : nombre[i] = "-"
    THEN TiendaCiudadPorGuion([i \in DOMAIN split_guion(nombre) |->
                                  strip(split_guion(nombre)[i])])
    ELSE <<nombre, CIUDAD_DESCONOCIDA>>

\* nombre.strip() raises AttributeError for a value that is not a str
separar_tienda_ciudad(nombre_crudo) ==
    IF ~EsTexto(nombre_crudo) THEN Raise("AttributeError")
    ELSE Ok(SepararNombre(strip(nombre_crudo)))

MAKRO_CALLE_30 == <<"MAKRO", " ", "CALLE", " ", "30">>
ESTACION_POBLADO == <<"ESTACION", " ", "POBLADO">>
CALI_NORTE == <<"CALI", " ", "-", " ", "NORTE">>

\* lines 143-160, for the upper-case name behind the store code
SepararNombreMakro(nombre) ==
    IF nombre = MAKRO_CALLE_30
    THEN <<MAKRO_CALLE_30, <<"SOLEDAD">>>>
    ELSE IF nombre = ESTACION_POBLADO
    THEN <<ESTACION_POBLADO, <<"MEDELLIN">>>>
    ELSE IF nombre = CALI_NORTE
    THEN <<<<"NORTE">>, <<"CALI">>>>
    ELSE IF PosicionesEspGuionEsp(nombre) # {}
    THEN <<strip(rsplit_esp_guion_esp_1(nombre)[1]),
           strip(rsplit_esp_guion_esp_1(nombre)[2])>>
    ELSE <<TIENDA_UNICA, strip(nombre)>>

\* valor.split raises AttributeError for a value that is neither missing
\* nor a str
separar_tienda_ciudad_makro(valor) ==
    IF isna(valor) THEN Ok(<<<<>>, <<>>>>)
    ELSE IF ~EsTexto(valor) THEN Raise("AttributeError")
    ELSE Ok(SepararNombreMakro(
                upper(IF Len(split_guion_1(valor)) = 2
                      THEN strip(split_guion_1(valor)[2])
                      ELSE strip(valor))))

----------------------------------------------------------------------------
(* Tables *)

None == [none |-> TRUE]

NaNNumero == -1

PROMOTORA_DE_COMERCIO_SOCIAL == "PROMOTORA DE COMERCIO SOCIAL"
MAKRO_SUPERMAYORISTA_SAS == "MAKRO SUPERMAYORISTA SAS"
FARMATODO_COLOMBIA_SA == "FARMATODO COLOMBIA SA"

\* the strings of the model in the order Python compares them
OrdenCadenas ==
    <<" ", "-", "12", "30", "7701", "7702", "7703", "ABR", "AGO", "BOGOTA",
      "CALI", "CALLE", "CARULLA", "CIUDAD", "CLARO", "CUMARA", "Crema",
      "DE", "DESCONOCIDA", "DIC", "ENE", "ESTACION", "FEB", "Gel", "JUL",
      "JUN", "MAKRO", "MANIZALES", "MAR", "MAY", "MEDELLIN", "NORTE",
      "NOV", "OCT", "PLAZA", "POBLADO", "POTOSI", "PRADERA", "SEP",
      "SOLEDAD", "Tienda", "UNICENTRO", "Unica", "abril", "agosto",
      "april", "august", "december", "diciembre", "enero", "febrero",
      "february", "january", "julio", "july", "june", "junio", "march",
      "marzo", "may", "mayo", "november", "noviembre", "october",
      "octubre", "september", "septiembre">>

RangoCadena(c) == CHOOSE i \in DOMAIN OrdenCadenas : OrdenCadenas[i] = c

\* a text as the ranks of its tokens, closed by 0
RangoTexto(t) == [i \in 1..(Len(t) + 1) |->
                     IF i <= Len(t) THEN RangoCadena(t[i]) ELSE 0]

RECURSIVE LexMenor(_, _)
LexMenor(a, b) ==
    IF b = <<>> THEN FALSE
    ELSE IF a = <<>> THEN TRUE
    ELSE IF Head(a) # Head(b) THEN Head(a) < Head(b)
    ELSE LexMenor(Tail(a), Tail(b))

\* the six key fields of a canonical row
Clave(f) == <<f.EAN, f.Mes, f.anio, f.Tienda, f.Ciudad, f.Descripcion>>

RangoClave(k) ==
    <<RangoCadena(k[1]), RangoCadena(k[2]), k[3]>> \o RangoTexto(k[4])
        \o RangoTexto(k[5]) \o <<RangoCadena(k[6])>>

ClaveCompleta(k) ==
    /\ k[1] # NaN
    /\ k[2] # NaN
    /\ k[3] # NaNNumero
    /\ ~isna(k[4])
    /\ ~isna(k[5])
    /\ k[6] # NaN

RECURSIVE OrdenarClaves(_)
OrdenarClaves(K) ==
    IF K = {} THEN <<>>
    ELSE LET m == CHOOSE k \in K :
                     \A o \in K \ {k} : LexMenor(RangoClave(k), RangoClave(o))
         IN  <<m>> \o OrdenarClaves(K \ {m})

\* Series.sum(): missing values are skipped
SumaUnidades(filas) ==
    SumSeq([i \in DOMAIN filas |->
               IF filas[i].Unidades = NaNNumero THEN 0 ELSE filas[i].Unidades])

PrimeraDelGrupo(filas, k) ==
    SelectSeq(filas, LAMBDA f : Clave(f) = k)[1].Unidades

SumaDelGrupo(filas, k) ==
    SumaUnidades(SelectSeq(filas, LAMBDA f : Clave(f) = k))

\* groupby(key columns).agg({"Unidades": "sum"}).reset_index(): one row per
\* key, keys in ascending order, rows with a missing key field dropped
FilaAgrupada(filas, k) ==
    [EAN |-> k[1], Mes |-> k[2], anio |-> k[3], Tienda |-> k[4],
     Ciudad |-> k[5], Descripcion |-> k[6], Unidades |-> SumaDelGrupo(filas, k)]

FilasAgrupadas(filas, claves) ==
    [i \in DOMAIN claves |-> FilaAgrupada(filas, claves[i])]

groupby_sum(filas) ==
    FilasAgrupadas(filas,
        OrdenarClaves({Clave(filas[i]) : i \in
            {j \in DOMAIN filas : ClaveCompleta(Clave(filas[j]))}}))

\* values a reshaper hands back
Tupla(consolidado, ventas) ==
    [tipo |-> "tupla", consolidado |-> consolidado, ventas |-> ventas]
DictError(mensaje) == [tipo |-> "dict", error |-> mensaje]
Excepcion(e) == [tipo |-> "excepcion", exc |-> e]

ConCliente(filas, cliente, num_mes) ==
    [i \in DOMAIN filas |->
        [EAN |-> filas[i].EAN, cliente |-> cliente, Mes |-> filas[i].Mes,
         anio |-> filas[i].anio, Tienda |-> filas[i].Tienda,
         Ciudad |-> filas[i].Ciudad, Descripcion |-> filas[i].Descripcion,
         Unidades |-> filas[i].Unidades, NumMes |-> num_mes]]

Resumen(mes, anio, cliente, unidades, num_mes) ==
    [Mes |-> mes, anio |-> anio, cliente |-> cliente,
     Unidades |-> unidades, NumMes |-> num_mes]

----------------------------------------------------------------------------
(* Per-client reshapers *)

meses_makro ==
    [m \in Range(MesesValidos) |->
        CASE m = "ENE" -> "Enero"      [] m = "FEB" -> "Febrero"
          [] m = "MAR" -> "Marzo"      [] m = "ABR" -> "Abril"
          [] m = "MAY" -> "Mayo"       [] m = "JUN" -> "Junio"
          [] m = "JUL" -> "Julio"      [] m = "AGO" -> "Agosto"
          [] m = "SEP" -> "Septiembre" [] m = "OCT" -> "Octubre"
          [] m = "NOV" -> "Noviembre"  [] m = "DIC" -> "Diciembre"]

obtener_mes_completo(nombre_mes) == meses_makro[nombre_mes]

\* Series.dt.strftime("%B").str.lower(): the month name of the C locale
strftime_B_lower(num_mes) ==
    CASE num_mes = 1 -> "january"    [] num_mes = 2 -> "february"
      [] num_mes = 3 -> "march"      [] num_mes = 4 -> "april"
      [] num_mes = 5 -> "may"        [] num_mes = 6 -> "june"
      [] num_mes = 7 -> "july"       [] num_mes = 8 -> "august"
      [] num_mes = 9 -> "september"  [] num_mes = 10 -> "october"
      [] num_mes = 11 -> "november"  [] num_mes = 12 -> "december"

COLUMNAS_PROMOTORA ==
    <<"EAN", "cliente", "Mes", "anio", "Tienda", "Ciudad", "Descripcion",
      "Unidades", "NumMes">>

COLUMNAS_MAKRO ==
    <<"EAN", "Mes", "anio", "cliente", "Tienda", "Ciudad", "Descripcion",
      "Unidades", "NumMes">>

COLUMNAS_FARMATODO ==
    <<"EAN", "Mes", "anio", "cliente", "Tienda", "Ciudad", "Descripcion",
      "Unidades", "NumMes">>

Frame(columnas, filas) == [columnas |-> columnas, filas |-> filas]

\* rows of the PROMOTORA file that keep a store label (lines 199-202)
FiltrarDependencia(filas) ==
    SelectSeq(filas, LAMBDA f : ~isna(f.Dependencia) /\ strip(f.Dependencia) # <<>>)

\* the columns Mes, Anio (from Fecha) and Tienda, Ciudad (from the label)
TiendaCiudadPromotora(f, tienda_ciudad) ==
    [EAN |-> f.EAN,
     Mes |-> IF f.Fecha.nat THEN NaN ELSE strftime_B_lower(f.Fecha.mes),
     anio |-> IF f.Fecha.nat THEN NaNNumero ELSE f.Fecha.anio,
     Tienda |-> tienda_ciudad[1],
     Ciudad |-> tienda_ciudad[2],
     Descripcion |-> f.Descripcion,
     Unidades |-> f.Unidades]

FilaPromotora(f) ==
    TiendaCiudadPromotora(f, separar_tienda_ciudad(f.Dependencia).val)

\* the rows that reach the groupby of procesar_promotora (lines 199-207)
FilasDeDependencia(filtradas) ==
    [i \in DOMAIN filtradas |-> FilaPromotora(filtradas[i])]

FilasPromotora(d) ==
    FilasDeDependencia(FiltrarDependencia(d.tabla_cliente_promotora.filas))

\* lines 209-234: the returned pair, from the expected period, the grouped
\* rows and the total of the summary
Salida(siguiente, cliente, columnas, ventas, total_unidades, num_mes) ==
    Tupla(Resumen(siguiente[1], siguiente[2], cliente, total_unidades, num_mes),
          Frame(columnas, ConCliente(ventas, cliente, num_mes)))

VentasPromotora(siguiente, ventas_promotora) ==
    Salida(siguiente, PROMOTORA_DE_COMERCIO_SOCIAL, COLUMNAS_PROMOTORA,
           ventas_promotora, SumaUnidades(ventas_promotora),
           obtener_numero_mes(siguiente[1]).val)

ResultadoPromotora(filas, informacion_consolidado) ==
    IF filas = <<>>
    THEN Excepcion("ValueError")   \* two columns set from an empty Series
    ELSE IF EsError(informacion_consolidado)
    THEN Excepcion("KeyError")
    ELSE VentasPromotora(informacion_consolidado.siguiente_mes, groupby_sum(filas))

procesar_promotora(d) ==
    IF d.tabla_cliente_promotora = None THEN Tupla(None, None)
    ELSE IF "Unidades" \notin d.tabla_cliente_promotora.columnas
    THEN DictError("No se encontro la columna 'Unidades'")
    ELSE IF \E f \in Range(FiltrarDependencia(d.tabla_cliente_promotora.filas)) :
               Raised(separar_tienda_ciudad(f.Dependencia))
    THEN Excepcion("AttributeError")
    ELSE ResultadoPromotora(FilasPromotora(d),
             obtener_ultimo_mes_cliente(d.tabla_sell_out_consolidado,
                                        PROMOTORA_DE_COMERCIO_SOCIAL))

\* a cell of an id column survives lines 275-281 when it is neither missing,
\* nor empty, nor one blank
CeldaPresente(c) == c # NaN /\ c # "" /\ c # " "
TextoPresente(t) == ~isna(t) /\ t # <<>> /\ t # <<" ">>

FiltrarIdVars(filas) ==
    SelectSeq(filas, LAMBDA f : /\ TextoPresente(f.Tienda)
                                /\ CeldaPresente(f.Articulo)
                                /\ CeldaPresente(f.Descripcion)
                                /\ CeldaPresente(f.CodigoBarras))

\* DataFrame.melt over the (month, 'Cde.') columns that were selected
melt(filas, columna_mes_cde) ==
    Flatten([c \in DOMAIN columna_mes_cde |->
        [i \in DOMAIN filas |->
            [Tienda |-> filas[i].Tienda, Articulo |-> filas[i].Articulo,
             Descripcion |-> filas[i].Descripcion,
             CodigoBarras |-> filas[i].CodigoBarras,
             Mes |-> columna_mes_cde[c],
             Unidades |-> filas[i].Cde[columna_mes_cde[c]]]]])

TiendaCiudadMakro(f, siguiente_anio, tienda_ciudad) ==
    [EAN |-> f.CodigoBarras,
     Mes |-> lower_mes(f.Mes),
     anio |-> siguiente_anio,
     Tienda |-> tienda_ciudad[1],
     Ciudad |-> tienda_ciudad[2],
     Descripcion |-> f.Descripcion,
     Unidades |-> f.Unidades]

FilaMakro(f, siguiente_anio) ==
    TiendaCiudadMakro(f, siguiente_anio,
                      separar_tienda_ciudad_makro(f.Tienda).val)

\* the column of June next to the column of the month to process
ColumnasDesdeJunio(columnas, mes_procesar) ==
    IF mes_procesar \notin columnas THEN <<>>
    ELSE IF "Junio" \in columnas /\ mes_procesar # "Junio"
    THEN <<"Junio", mes_procesar>>
    ELSE <<mes_procesar>>

\* line 283: the (month, 'Cde.') column of the month to process, if any
columna_mes_cde(columnas, mes_procesar) ==
    IF mes_procesar \in columnas THEN <<mes_procesar>> ELSE <<>>

\* the long table of procesar_makro once the rows without units are gone
\* (lines 274-293)
MAKRO_consolidado_long(d, siguiente_mes) ==
    SelectSeq(melt(FiltrarIdVars(d.tabla_cliente_makro.filas),
                   columna_mes_cde(d.tabla_cliente_makro.columnas,
                                   obtener_mes_completo(siguiente_mes))),
              LAMBDA f : f.Unidades # NaNNumero /\ f.Unidades # 0)

\* the rows that reach the groupby of procesar_makro (lines 295-307)
FilasDelLargo(largo, siguiente_anio) ==
    [i \in DOMAIN largo |-> FilaMakro(largo[i], siguiente_anio)]

FilasMakro(d, siguiente) ==
    FilasDelLargo(MAKRO_consolidado_long(d, siguiente[1]), siguiente[2])

VentasMakro(siguiente, largo) ==
    IF largo = <<>>
    THEN Excepcion("ValueError")   \* two columns set from an empty Series
    ELSE IF \E f \in Range(largo) : Raised(separar_tienda_ciudad_makro(f.Tienda))
    THEN Excepcion("AttributeError")
    ELSE Salida(siguiente, MAKRO_SUPERMAYORISTA_SAS, COLUMNAS_MAKRO,
                groupby_sum(FilasDelLargo(largo, siguiente[2])),
                SumaUnidades(largo), obtener_numero_mes(siguiente[1]).val)

ResultadoMakro(d, informacion_consolidado) ==
    IF EsError(informacion_consolidado)
    THEN Excepcion("KeyError")
    ELSE VentasMakro(informacion_consolidado.siguiente_mes,
             MAKRO_consolidado_long(d, informacion_consolidado.siguiente_mes[1]))

procesar_makro(d) ==
    IF d.tabla_cliente_makro = None THEN Tupla(None, None)
    ELSE ResultadoMakro(d,
             obtener_ultimo_mes_cliente(d.tabla_sell_out_consolidado,
                                        MAKRO_SUPERMAYORISTA_SAS))

FilaFarmatodo(f, siguiente_mes, siguiente_anio) ==
    [EAN |-> f.UPC,
     Mes |-> siguiente_mes,
     anio |-> siguiente_anio,
     Tienda |-> f.NOMBRE_TIENDA,
     Ciudad |-> f.CIUDAD,
     Descripcion |-> f.DESCRIPCION_ITEM,
     Unidades |-> f.UNIDADES_VENDIDAS]

\* archivo_farmatodo["UNIDADES_VENDIDAS"].sum() (line 385)
SumaUnidadesVendidas(filas) ==
    SumSeq([i \in DOMAIN filas |->
               IF filas[i].UNIDADES_VENDIDAS = NaNNumero THEN 0
               ELSE filas[i].UNIDADES_VENDIDAS])

\* the rows that reach the groupby of procesar_farmatodo (lines 361-372)
FilasFarmatodo(d, siguiente) ==
    [i \in DOMAIN d.tabla_cliente_farmatodo.filas |->
        FilaFarmatodo(d.tabla_cliente_farmatodo.filas[i], siguiente[1], siguiente[2])]

ResultadoFarmatodo(d, informacion_consolidado) ==
    IF EsError(informacion_consolidado)
    THEN Excepcion("KeyError")
    ELSE IF "UNIDADES_VENDIDAS" \notin d.tabla_cliente_farmatodo.columnas
    THEN Excepcion("KeyError")     \* agg over a column that does not exist
    ELSE Salida(informacion_consolidado.siguiente_mes, FARMATODO_COLOMBIA_SA,
                COLUMNAS_FARMATODO,
                groupby_sum(FilasFarmatodo(d, informacion_consolidado.siguiente_mes)),
                SumaUnidadesVendidas(d.tabla_cliente_farmatodo.filas),
                obtener_numero_mes(informacion_consolidado.siguiente_mes[1]).val)

procesar_farmatodo(d) ==
    IF d.tabla_cliente_farmatodo = None THEN Tupla(None, None)
    ELSE ResultadoFarmatodo(d,
             obtener_ultimo_mes_cliente(d.tabla_sell_out_consolidado,
                                        FARMATODO_COLOMBIA_SA))

----------------------------------------------------------------------------
(* File-name and period validation (funciones_principales.py) *)

Clientes == <<"PROMOTORA", "MAKRO", "FARMATODO">>

\* validar_clientes_grandes_simple.clientes_info and
\* cargar_datos_clientes.clientes_carga
clientes_info ==
    [c \in Range(Clientes) |->
        CASE c = "PROMOTORA" -> [config_key |-> "archivo_promotora",
                                 empresa_nombre |-> PROMOTORA_DE_COMERCIO_SOCIAL,
                                 data_key |-> "tabla_cliente_promotora"]
          [] c = "MAKRO" -> [config_key |-> "archivo_makro",
                             empresa_nombre |-> MAKRO_SUPERMAYORISTA_SAS,
                             data_key |-> "tabla_cliente_makro"]
          [] c = "FARMATODO" -> [config_key |-> "archivo_farmatodo",
                                 empresa_nombre |-> FARMATODO_COLOMBIA_SA,
                                 data_key |-> "tabla_cliente_farmatodo"]]

\* a name that is None or empty, and a month that is None
SinNombre == <<>>
NoneCadena == "None"

\* a validation of the name that accepts every name
FormatoSiempreValido(nombre_archivo, tipo_cliente) ==
    <<TRUE, upper_palabra(nombre_archivo[1]), None>>

\* A file name is the sequence of the pieces that '_' separates once
\* '.xlsx' is removed: "JUL_PROMOTORA.xlsx" is <<"JUL", "PROMOTORA">>.
validar_formato_nombre_archivo(nombre_archivo, tipo_cliente) ==
    IF nombre_archivo = SinNombre
    THEN <<FALSE, NoneCadena, [texto |-> "No se especifico archivo"]>>
    ELSE IF Len(nombre_archivo) < 2
    THEN <<FALSE, NoneCadena, [texto |-> "debe tener formato MES_CLIENTE.xlsx"]>>
    ELSE LET mes_archivo == upper_palabra(nombre_archivo[1])
             cliente_archivo == upper(Tail(nombre_archivo))
         IN  IF \A i \in DOMAIN MesesValidos : MesesValidos[i] # mes_archivo
             THEN <<FALSE, NoneCadena, [texto |-> "Mes no valido", mes |-> mes_archivo]>>
             ELSE IF cliente_archivo # <<upper_palabra(tipo_cliente)>>
             THEN <<FALSE, NoneCadena, [texto |-> "Cliente debe ser",
                                  cliente |-> cliente_archivo]>>
             ELSE <<TRUE, mes_archivo, None>>

\* A file name as it is written is a sequence of pieces: words, the
\* character '_' and the extension '.xlsx'.  The text of some pieces put
\* together, in upper case
RECURSIVE Unir(_)
Unir(piezas) ==
    IF piezas = <<>> THEN "" ELSE upper_palabra(Head(piezas)) \o Unir(Tail(piezas))

\* str.split('_'): the pieces between the '_', empty ones included
RECURSIVE split_guion_bajo(_)
split_guion_bajo(t) ==
    IF \A i \in DOMAIN t : t[i] # "_" THEN <<t>>
    ELSE LET k == CHOOSE i \in DOMAIN t :
                     t[i] = "_" /\ \A j \in 1..(i - 1) : t[j] # "_"
         IN  <<SubSeq(t, 1, k - 1)>> \o split_guion_bajo(SubSeq(t, k + 1, Len(t)))

\* nombre_archivo.replace('.xlsx', '').split('_'), every part in upper case
PartesDelNombre(escrito) ==
    IF escrito = <<>> THEN SinNombre
    ELSE [i \in DOMAIN split_guion_bajo(SelectSeq(escrito, LAMBDA p : p # ".xlsx")) |->
             Unir(split_guion_bajo(SelectSeq(escrito, LAMBDA p : p # ".xlsx"))[i])]

\* list.index
Indice(lista, x) == CHOOSE i \in DOMAIN lista : lista[i] = x

MensajeMes(texto, mes_archivo, mes_esperado) ==
    [texto |-> texto, mes_archivo |-> mes_archivo, mes_esperado |-> mes_esperado]

MesSiempreCoincide(mes_archivo, mes_esperado) == TRUE

MesCoincide(mes_archivo, mes_esperado) == mes_archivo = mes_esperado

verificar_mes_correcto(mes_archivo, mes_esperado, nombre_archivo) ==
    IF MesCoincide(mes_archivo, mes_esperado)
    THEN <<TRUE, [texto |-> "Mes correcto", mes_esperado |-> mes_esperado]>>
    ELSE IF \/ \A i \in DOMAIN MesesValidos : MesesValidos[i] # mes_archivo
            \/ \A i \in DOMAIN MesesValidos : MesesValidos[i] # mes_esperado
    THEN <<FALSE, [texto |-> "Error comparando meses"]>>
    ELSE LET pos_archivo == Indice(MesesValidos, mes_archivo) - 1
             pos_esperado == Indice(MesesValidos, mes_esperado) - 1
         IN  IF pos_archivo < pos_esperado \/ (pos_esperado = 0 /\ pos_archivo > 6)
             THEN <<FALSE, MensajeMes("ya procesado", mes_archivo, mes_esperado)>>
             ELSE <<FALSE, MensajeMes("no corresponde", mes_archivo, mes_esperado)>>

Resultado(cliente, procesable, mensaje, archivo, mes) ==
    [cliente |-> cliente, procesable |-> procesable, mensaje |-> mensaje,
     archivo |-> archivo, mes |-> mes]

\* lines 163-168
ResultadoDelMes(cfg, tipo_cliente, mes_archivo, v) ==
    IF v[1]
    THEN Resultado(tipo_cliente, TRUE,
                   [texto |-> "Listo para procesar", mes |-> mes_archivo],
                   cfg.nombre_archivo, mes_archivo)
    ELSE Resultado(tipo_cliente, FALSE, v[2], cfg.nombre_archivo, mes_archivo)

\* lines 156-163
ResultadoDelConsolidado(cfg, tipo_cliente, mes_archivo, info_consolidado) ==
    IF EsError(info_consolidado)
    THEN Resultado(tipo_cliente, FALSE, [texto |-> "Error en consolidado"],
                   cfg.nombre_archivo, mes_archivo)
    ELSE ResultadoDelMes(cfg, tipo_cliente, mes_archivo,
             verificar_mes_correcto(mes_archivo,
                                    info_consolidado.siguiente_mes[1],
                                    cfg.nombre_archivo))

\* lines 145-156
ResultadoDelFormato(cfg, d, tipo_cliente, empresa_nombre, formato) ==
    IF ~formato[1]
    THEN Resultado(tipo_cliente, FALSE, formato[3], cfg.nombre_archivo,
                   NoneCadena)
    ELSE ResultadoDelConsolidado(cfg, tipo_cliente, formato[2],
             obtener_ultimo_mes_cliente(d.tabla_sell_out_consolidado,
                                        empresa_nombre))

\* cfg is the entry of the client in config: the configured name and
\* whether a file of that name exists in the input folder
validar_cliente_individual(cfg, d, tipo_cliente, empresa_nombre) ==
    IF cfg.nombre_archivo = SinNombre
    THEN Resultado(tipo_cliente, FALSE,
                   [texto |-> "No especificado en configuracion"],
                   SinNombre, NoneCadena)
    ELSE IF ~cfg.existe
    THEN Resultado(tipo_cliente, FALSE, [texto |-> "Archivo no encontrado"],
                   cfg.nombre_archivo, NoneCadena)
    ELSE ResultadoDelFormato(cfg, d, tipo_cliente, empresa_nombre,
             validar_formato_nombre_archivo(cfg.nombre_archivo, tipo_cliente))

validar_clientes_grandes_simple(cfgs, d) ==
    [c \in Range(Clientes) |->
        validar_cliente_individual(cfgs[c], d, c, clientes_info[c].empresa_nombre)]

----------------------------------------------------------------------------
(* Inputs of a run *)

T_BOGOTA_UNICENTRO == <<"BOGOTA", " ", "-", " ", "UNICENTRO">>
T_BOGOTA_UNICENTRO_PEGADO == <<"BOGOTA", "-", "UNICENTRO">>
T_BLANCO == <<" ">>

Fecha(anio, mes) == [nat |-> FALSE, anio |-> anio, mes |-> mes]
NaT == [nat |-> TRUE, anio |-> 0, mes |-> 0]

FilaEntradaPromotora(fecha, dependencia, ean, descripcion, unidades) ==
    [Fecha |-> fecha, Dependencia |-> dependencia, EAN |-> ean,
     Descripcion |-> descripcion, Unidades |-> unidades]

ColumnasEntradaPromotora ==
    {"Fecha", "Nomb. Dependencia", "EAN", "Descripcion", "Unidades"}

\* two rows of July with one key, and one row of May
P_JULIO ==
    [columnas |-> ColumnasEntradaPromotora,
     filas |-> <<FilaEntradaPromotora(Fecha(2025, 7), T_BOGOTA_UNICENTRO, "7701", "Crema", 10),
                 FilaEntradaPromotora(Fecha(2025, 7), T_BOGOTA_UNICENTRO_PEGADO, "7701", "Crema", 15),
                 FilaEntradaPromotora(Fecha(2025, 5), CARULLA_MANIZALES, "7702", "Gel", 4)>>]

\* a row without product code and a row without store
P_HUECOS ==
    [columnas |-> ColumnasEntradaPromotora,
     filas |-> <<FilaEntradaPromotora(Fecha(2025, 8), CARULLA_MANIZALES, "7702", "Gel", 6),
                 FilaEntradaPromotora(Fecha(2025, 8), CARULLA_MANIZALES, NaN, "Gel", 3),
                 FilaEntradaPromotora(Fecha(2025, 8), NaNTexto, "7701", "Crema", 2)>>]

P_SIN_UNIDADES ==
    [columnas |-> ColumnasEntradaPromotora \ {"Unidades"},
     filas |-> <<FilaEntradaPromotora(Fecha(2025, 7), T_BOGOTA_UNICENTRO, "7701", "Crema", NaNNumero)>>]

P_SIN_TIENDA ==
    [columnas |-> ColumnasEntradaPromotora,
     filas |-> <<FilaEntradaPromotora(Fecha(2025, 7), T_BLANCO, "7701", "Crema", 5)>>]

FilaEntradaMakro(tienda, articulo, descripcion, codigo, cde) ==
    [Tienda |-> tienda, Articulo |-> articulo, Descripcion |-> descripcion,
     CodigoBarras |-> codigo, Cde |-> cde]

Cde3(junio, julio, agosto) ==
    [m \in {"Junio", "Julio", "Agosto"} |->
        CASE m = "Junio" -> junio [] m = "Julio" -> julio [] m = "Agosto" -> agosto]

\* two rows with one key, a row without units in July, a row without
\* article number and a row without store
M_TRES_MESES ==
    [columnas |-> {"Junio", "Julio", "Agosto"},
     filas |-> <<FilaEntradaMakro(<<"12", "-", "CALI", " ", "-", " ", "NORTE">>,
                                  "A1", "Crema", "7701", Cde3(7, 10, 3)),
                 FilaEntradaMakro(<<"12", "-", "cali", " ", "-", " ", "norte">>,
                                  "A1", "Crema", "7701", Cde3(1, 15, 0)),
                 FilaEntradaMakro(<<"30", "-", "CUMARA">>,
                                  "A2", "Gel", "7702", Cde3(NaNNumero, NaNNumero, 4)),
                 FilaEntradaMakro(<<"30", "-", "CUMARA">>,
                                  NaN, "Gel", "7702", Cde3(2, 3, 3)),
                 FilaEntradaMakro(NaNTexto,
                                  "A1", "Crema", "7701", Cde3(2, 2, 2))>>]

\* a sheet that has no column for July or August
M_SIN_MES ==
    [columnas |-> {"Junio"},
     filas |-> <<FilaEntradaMakro(<<"30", "-", "CUMARA">>, "A2", "Gel", "7702",
                                  [m \in {"Junio"} |-> 9])>>]

FilaEntradaFarmatodo(upc, tienda, ciudad, descripcion, unidades) ==
    [UPC |-> upc, NOMBRE_TIENDA |-> tienda, CIUDAD |-> ciudad,
     DESCRIPCION_ITEM |-> descripcion, UNIDADES_VENDIDAS |-> unidades]

ColumnasEntradaFarmatodo ==
    {"UPC", "NOMBRE_TIENDA", "CIUDAD", "DESCRIPCION_ITEM", "UNIDADES_VENDIDAS"}

F_DOS_TIENDAS ==
    [columnas |-> ColumnasEntradaFarmatodo,
     filas |-> <<FilaEntradaFarmatodo("7703", <<"UNICENTRO">>, <<"BOGOTA">>, "Gel", 2),
                 FilaEntradaFarmatodo("7701", <<"UNICENTRO">>, <<"BOGOTA">>, "Crema", 10),
                 FilaEntradaFarmatodo("7701", <<"UNICENTRO">>, <<"BOGOTA">>, "Crema", 15)>>]

\* a row without city, a row without store and a row whose store is blank
F_HUECOS ==
    [columnas |-> ColumnasEntradaFarmatodo,
     filas |-> <<FilaEntradaFarmatodo("7701", <<"UNICENTRO">>, <<"BOGOTA">>, "Crema", 5),
                 FilaEntradaFarmatodo("7701", <<"UNICENTRO">>, NaNTexto, "Crema", 3),
                 FilaEntradaFarmatodo("7702", NaNTexto, <<"BOGOTA">>, "Gel", 4),
                 FilaEntradaFarmatodo("7702", <<" ">>, <<"BOGOTA">>, "Gel", 1)>>]

F_SIN_UNIDADES ==
    [columnas |-> ColumnasEntradaFarmatodo \ {"UNIDADES_VENDIDAS"},
     filas |-> <<FilaEntradaFarmatodo("7701", <<"UNICENTRO">>, <<"BOGOTA">>, "Crema", NaNNumero)>>]

\* what read_excel can return for the file of a client
TablasCliente(c) ==
    CASE c = "PROMOTORA" -> {P_JULIO, P_HUECOS, P_SIN_UNIDADES, P_SIN_TIENDA}
      [] c = "MAKRO" -> {M_TRES_MESES, M_SIN_MES}
      [] c = "FARMATODO" -> {F_DOS_TIENDAS, F_HUECOS, F_SIN_UNIDADES}

Entrada(nombre_archivo, existe) ==
    [nombre_archivo |-> nombre_archivo, existe |-> existe]

\* entries of config: no file configured, a file of the month that is due
\* at the first run, a file of another month
EntradasCliente(c) ==
    CASE c = "PROMOTORA" ->
            {Entrada(SinNombre, FALSE),
             Entrada(<<"JUL", "PROMOTORA">>, TRUE),
             Entrada(<<"ago", "promotora">>, TRUE)}
      [] c = "MAKRO" ->
            {Entrada(SinNombre, FALSE),
             Entrada(<<"jul", "Makro">>, TRUE),
             Entrada(<<"AGO", "MAKRO">>, TRUE)}
      [] c = "FARMATODO" ->
            {Entrada(SinNombre, FALSE),
             Entrada(<<"ENE", "FARMATODO">>, TRUE),
             Entrada(<<"DIC", "Farmatodo">>, TRUE)}

\* entries of config that fail before the month is compared: the file is
\* not in the input folder, or its name is not MES_CLIENTE
EntradasInvalidas(c) ==
    CASE c = "PROMOTORA" ->
            {Entrada(<<"JUL", "PROMOTORA">>, FALSE), Entrada(<<"JULIO">>, TRUE)}
      [] c = "MAKRO" ->
            {Entrada(<<"JUL", "MAKRO">>, FALSE),
             Entrada(<<"JUL", "PROMOTORA">>, TRUE)}
      [] c = "FARMATODO" ->
            {Entrada(<<"ENE", "FARMATODO">>, FALSE),
             Entrada(<<"XYZ", "FARMATODO">>, TRUE)}

\* the values of config a run is started with: every combination of the
\* entries of EntradasCliente, and every invalid entry on its own
Configuraciones ==
    [Range(Clientes) -> UNION {EntradasCliente(c) : c \in Range(Clientes)}
                        \cup UNION {EntradasInvalidas(c) : c \in Range(Clientes)}]

ConfiguracionValida(cfgs) ==
    \/ \A c \in Range(Clientes) : cfgs[c] \in EntradasCliente(c)
    \/ \E c \in Range(Clientes) :
          /\ cfgs[c] \in EntradasInvalidas(c)
          /\ \A o \in Range(Clientes) \ {c} : cfgs[o] = Entrada(SinNombre, FALSE)

FilaHistoria(mes, anio, cliente, unidades) ==
    Resumen(mes, anio, cliente, unidades, obtener_numero_mes(mes).val)

\* seed histories: the rows of a client need not be in chronological order.
\* In the first history every client has a gap-free, duplicate-free sequence
\* of months; the second holds no row of FARMATODO and a row of PROMOTORA
\* whose month is not a month code.
HistoriasIniciales ==
    {<<FilaHistoria("JUN", 2025, MAKRO_SUPERMAYORISTA_SAS, 100),
       FilaHistoria("JUN", 2025, PROMOTORA_DE_COMERCIO_SOCIAL, 50),
       FilaHistoria("MAY", 2025, MAKRO_SUPERMAYORISTA_SAS, 90),
       FilaHistoria("DIC", 2025, FARMATODO_COLOMBIA_SA, 70)>>,
     <<FilaHistoria("JUN", 2025, PROMOTORA_DE_COMERCIO_SOCIAL, 50),
       Resumen("XYZ", 2025, PROMOTORA_DE_COMERCIO_SOCIAL, 10, NaNNumero),
       FilaHistoria("JUN", 2025, MAKRO_SUPERMAYORISTA_SAS, 100)>>}

CiudadesInicial ==
    Frame(COLUMNAS_MAKRO,
          <<[EAN |-> "7701", Mes |-> "junio", anio |-> 2025,
             cliente |-> MAKRO_SUPERMAYORISTA_SAS, Tienda |-> <<"NORTE">>,
             Ciudad |-> <<"CALI">>, Descripcion |-> "Crema", Unidades |-> 100,
             NumMes |-> 6]>>)

----------------------------------------------------------------------------
(* The script consolidar_clientes_grandes.py *)

NoLlamado == [tipo |-> "no_llamado"]
SinRetornos == [c \in Range(Clientes) |-> NoLlamado]

\* cargar_datos_clientes: the two histories, the validations, and the file
\* of every client that is processable (lines 223-274)
\* lines 248-265: a table is read for the clients that are processable
TablasCargadas(validaciones, leido) ==
    [tabla_sell_out_consolidado |-> archivo_sell_out,
     tabla_sell_out_ciudades_consolidado |-> archivo_ciudades,
     tabla_cliente_promotora |->
         IF validaciones["PROMOTORA"].procesable THEN leido["PROMOTORA"] ELSE None,
     tabla_cliente_makro |->
         IF validaciones["MAKRO"].procesable THEN leido["MAKRO"] ELSE None,
     tabla_cliente_farmatodo |->
         IF validaciones["FARMATODO"].procesable THEN leido["FARMATODO"] ELSE None,
     validaciones |-> validaciones]

cargar_datos_clientes(cfgs, leido) ==
    TablasCargadas(
        validar_clientes_grandes_simple(cfgs,
            [tabla_sell_out_consolidado |-> archivo_sell_out,
             tabla_sell_out_ciudades_consolidado |-> archivo_ciudades]),
        leido)

\* the tables the client files may hold, for the clients that will be read
TablasLeidas(validaciones, c) ==
    IF validaciones[c].procesable THEN TablasCliente(c) ELSE {None}

\* a read_excel that raises leaves None (lines 250-260): at most one file
\* of a run cannot be read, and the other files then hold these tables
LecturaConFallo(validaciones, fallido) ==
    [c \in Range(Clientes) |->
        IF c = fallido \/ ~validaciones[c].procesable THEN None
        ELSE CASE c = "PROMOTORA" -> P_JULIO
               [] c = "MAKRO" -> M_TRES_MESES
               [] c = "FARMATODO" -> F_DOS_TIENDAS]

Lecturas(validaciones) ==
    {[c \in Range(Clientes) |-> t[Indice(Clientes, c)]] :
        t \in TablasLeidas(validaciones, "PROMOTORA")
               \X TablasLeidas(validaciones, "MAKRO")
               \X TablasLeidas(validaciones, "FARMATODO")}
    \cup {LecturaConFallo(validaciones, fallido) :
             fallido \in {c \in Range(Clientes) : validaciones[c].procesable}}

\* read_excel of one of the two histories raises: the exception is raised
\* again (lines 267-272) and the script ends with datos unbound
CargaFallida ==
    /\ datos' = None
    /\ pc' = "carga_fallida"

CargarDatosClientes ==
    /\ pc = "inicio"
    /\ corrida < MaxCorridas
    /\ \E cfgs \in {x \in Configuraciones : ConfiguracionValida(x)} :
         /\ config' = cfgs
         /\ \/ CargaFallida
            \/ /\ \E leido \in Lecturas(validar_clientes_grandes_simple(cfgs,
                                  [tabla_sell_out_consolidado |-> archivo_sell_out])) :
                     datos' = cargar_datos_clientes(cfgs, leido)
               /\ pc' = "cargado"
    /\ corrida' = corrida + 1
    /\ retornos' = [sell_out |-> SinRetornos, ciudades |-> SinRetornos]
    /\ UNCHANGED <<archivo_sell_out, archivo_ciudades, salida_sell_out,
                   salida_ciudades, historia_inicial, anexados, llamada, retorno>>

\* procesar_promotora writes the columns Fecha, Mes and Anio into the table
\* that datos holds (lines 195-197)
TrasProcesarPromotora(d) ==
    IF d.tabla_cliente_promotora # None
       /\ "Unidades" \in d.tabla_cliente_promotora.columnas
    THEN [d EXCEPT !.tabla_cliente_promotora.columnas = @ \cup {"Mes", "Anio"}]
    ELSE d

\* the three calls in the order of the script; a call that raises, or whose
\* value cannot be unpacked into two names, ends the script
Retornos(rs) ==
    [c \in Range(Clientes) |->
        IF \E j \in DOMAIN Clientes :
              /\ j < Indice(Clientes, c)
              /\ rs[j].tipo # "tupla"
        THEN NoLlamado ELSE rs[Indice(Clientes, c)]]

LlamarReshapers(d) ==
    Retornos(<<procesar_promotora(d), procesar_makro(d), procesar_farmatodo(d)>>)

Completo(r) == \A c \in Range(Clientes) : r[c].tipo = "tupla"

\* lines 13-24: the history first, then one row per client that returned one
ConcatenarResumenes(historia, r) ==
    historia \o Flatten([i \in DOMAIN Clientes |->
                            IF r[Clientes[i]].consolidado # None
                            THEN <<r[Clientes[i]].consolidado>> ELSE <<>>])

ConcatenarResumenesAlReves(historia, r) ==
    Flatten([i \in DOMAIN Clientes |->
                IF r[Clientes[4 - i]].consolidado # None
                THEN <<r[Clientes[4 - i]].consolidado>> ELSE <<>>]) \o historia

actualizar_consolidado(historia, r) == ConcatenarResumenes(historia, r)

ActualizarConsolidadoYGuardarExcel ==
    /\ pc = "cargado"
    /\ \E r \in {LlamarReshapers(datos)} :
           /\ retornos' = [retornos EXCEPT !.sell_out = r]
           /\ datos' = TrasProcesarPromotora(datos)
           /\ IF Completo(r)
              THEN /\ salida_sell_out' =
                          actualizar_consolidado(datos.tabla_sell_out_consolidado, r)
                   /\ pc' = "sell_out_guardado"
              ELSE /\ salida_sell_out' = salida_sell_out
                   /\ pc' = "abortado"
    /\ UNCHANGED <<corrida, archivo_sell_out, archivo_ciudades, config,
                   salida_ciudades, historia_inicial, anexados, llamada, retorno>>

\* pd.concat of frames: the columns of the first frame, then the new ones
RECURSIVE UnirColumnas(_, _)
UnirColumnas(a, b) ==
    IF b = <<>> THEN a
    ELSE IF Head(b) \in Range(a) THEN UnirColumnas(a, Tail(b))
    ELSE UnirColumnas(Append(a, Head(b)), Tail(b))

concat(a, b) == Frame(UnirColumnas(a.columnas, b.columnas), a.filas \o b.filas)

RECURSIVE ConcatenarFrames(_)
ConcatenarFrames(frames) ==
    IF Len(frames) = 1 THEN frames[1]
    ELSE concat(ConcatenarFrames(SubSeq(frames, 1, Len(frames) - 1)),
                frames[Len(frames)])

\* the batches up to the first client that returned none
RECURSIVE VentasHastaAusente(_, _)
VentasHastaAusente(r, i) ==
    IF i > Len(Clientes) \/ r[Clientes[i]].ventas = None THEN <<>>
    ELSE <<r[Clientes[i]].ventas>> \o VentasHastaAusente(r, i + 1)

ConcatenarVentasHastaAusente(base_ciudades, r) ==
    ConcatenarFrames(<<base_ciudades>> \o VentasHastaAusente(r, 1))

\* lines 40-59: the history first, then the batch of every client that
\* returned one
ConcatenarVentas(base_ciudades, r) ==
    ConcatenarFrames(<<base_ciudades>> \o
        Flatten([i \in DOMAIN Clientes |->
                    IF r[Clientes[i]].ventas # None
                    THEN <<r[Clientes[i]].ventas>> ELSE <<>>]))

actualizar_consolidado_sell_out_ciudades(base_ciudades, r) ==
    ConcatenarVentas(base_ciudades, r)

ActualizarConsolidadoSellOutCiudadesYGuardarExcel ==
    /\ pc = "sell_out_guardado"
    /\ \E r \in {LlamarReshapers(datos)} :
           /\ retornos' = [retornos EXCEPT !.ciudades = r]
           /\ datos' = TrasProcesarPromotora(datos)
           /\ IF Completo(r)
              THEN /\ salida_ciudades' =
                          actualizar_consolidado_sell_out_ciudades(
                              datos.tabla_sell_out_ciudades_consolidado, r)
                   /\ pc' = "fin"
              ELSE /\ salida_ciudades' = salida_ciudades
                   /\ pc' = "abortado"
    /\ UNCHANGED <<corrida, archivo_sell_out, archivo_ciudades, config,
                   salida_sell_out, historia_inicial, anexados, llamada, retorno>>

\* the rows the reshapers handed to the two merges, in client order
ResumenesDevueltos(r) ==
    Flatten([i \in DOMAIN Clientes |->
                IF r[Clientes[i]].consolidado # None
                THEN <<r[Clientes[i]].consolidado>> ELSE <<>>])

VentasDevueltas(r) ==
    Flatten([i \in DOMAIN Clientes |->
                IF r[Clientes[i]].ventas # None
                THEN r[Clientes[i]].ventas.filas ELSE <<>>])

\* the two written tables become the histories of the next run
\* the script has ended: what it held in memory is gone, the files stay
ProcesoTerminado ==
    /\ config' = [c \in Range(Clientes) |-> Entrada(SinNombre, FALSE)]
    /\ datos' = None
    /\ retornos' = [sell_out |-> SinRetornos, ciudades |-> SinRetornos]

InstalarSalida ==
    /\ pc = "fin"
    /\ archivo_sell_out' = salida_sell_out
    /\ archivo_ciudades' = salida_ciudades
    /\ anexados' = [sell_out |-> anexados.sell_out \o ResumenesDevueltos(retornos.sell_out),
                    ciudades |-> anexados.ciudades \o VentasDevueltas(retornos.ciudades)]
    /\ pc' = "inicio"
    /\ ProcesoTerminado
    /\ UNCHANGED <<corrida, salida_sell_out, salida_ciudades, historia_inicial,
                   llamada, retorno>>

\* the script ended on an exception: the histories stay as they were
Reiniciar ==
    /\ pc \in {"abortado", "carga_fallida"}
    /\ pc' = "inicio"
    /\ ProcesoTerminado
    /\ UNCHANGED <<corrida, archivo_sell_out, archivo_ciudades, salida_sell_out,
                   salida_ciudades, historia_inicial, anexados, llamada, retorno>>

Init ==
    /\ pc = "inicio"
    /\ corrida = 0
    /\ archivo_sell_out \in HistoriasIniciales
    /\ archivo_ciudades = CiudadesInicial
    /\ config = [c \in Range(Clientes) |-> Entrada(SinNombre, FALSE)]
    /\ datos = None
    /\ retornos = [sell_out |-> SinRetornos, ciudades |-> SinRetornos]
    /\ salida_sell_out = <<>>
    /\ salida_ciudades = None
    /\ historia_inicial = [sell_out |-> archivo_sell_out,
                           ciudades |-> archivo_ciudades]
    /\ anexados = [sell_out |-> <<>>, ciudades |-> <<>>]
    /\ llamada = None
    /\ retorno = None

Next ==
    \/ CargarDatosClientes
    \/ ActualizarConsolidadoYGuardarExcel
    \/ ActualizarConsolidadoSellOutCiudadesYGuardarExcel
    \/ InstalarSalida
    \/ Reiniciar

Spec == Init /\ [][Next]_vars

----------------------------------------------------------------------------
(* Sell-through quantity of a sales row (funciones.py) *)

\* a quantity cell holds tenths of a unit: 15 stands for 1.5
Decimos == 10

\* int() of a number: the integer part; a missing cell raises
int_numero(x) ==
    IF x = NaNNumero THEN Raise("ValueError") ELSE Ok(x \div Decimos)

makro_multiplicadores ==
    [k \in {"15GR X 12UND X 32PQ", "48UND", "6UND"} |->
        CASE k = "15GR X 12UND X 32PQ" -> 32
          [] k = "48UND" -> 48
          [] k = "6UND" -> 6]

\* makro_multiplicadores.get(k, 1): an unknown label multiplies by one
MultiplicadorSinDefecto(k) ==
    IF k \in DOMAIN makro_multiplicadores THEN makro_multiplicadores[k] ELSE 1

\* makro_multiplicadores.get(k, 24)
MultiplicadorMakro(k) ==
    IF k \in DOMAIN makro_multiplicadores THEN makro_multiplicadores[k] ELSE 24

calcular_cantidad_sell_int(row) ==
    IF Raised(int_numero(row.Cantidad_inv)) THEN int_numero(row.Cantidad_inv)
    ELSE IF /\ row.Razon_social = MAKRO_SUPERMAYORISTA_SAS
            /\ row.Marca = "001 - NATURESSE"
         THEN Ok(int_numero(row.Cantidad_inv).val * MultiplicadorMakro(row.Cantidades))
         ELSE Ok(int_numero(row.Cantidad_inv).val)

(* New sales records (funciones_procesos.py) *)

\* A sales row is its key fields: the date (a day number) and the quantity;
\* the other key fields are the same in every row.
FilaVenta(fecha, cantidad) == [Fecha |-> fecha, Cantidad_inv |-> cantidad]

\* df_consolidado['Fecha'].max()
fecha_max_consolidado(df_consolidado) ==
    CHOOSE d \in {df_consolidado[i].Fecha : i \in DOMAIN df_consolidado} :
        \A i \in DOMAIN df_consolidado : df_consolidado[i].Fecha <= d

\* df_entrada[df_entrada['Fecha'] >= fecha_max_consolidado].reset_index()
df_filtrado_fecha(df_entrada, df_consolidado) ==
    SelectSeq(df_entrada,
              LAMBDA f : f.Fecha >= fecha_max_consolidado(df_consolidado))

\* entrada_normalizada.eq(ultimo_registro_normalizado).all(axis=1) for one
\* row: the key fields as text, 'nan' made missing again, numbers parsed;
\* a missing field equals nothing
Coincide(fila, ultimo_registro) ==
    /\ fila.Fecha = ultimo_registro.Fecha
    /\ fila.Cantidad_inv # NaNNumero
    /\ ultimo_registro.Cantidad_inv # NaNNumero
    /\ fila.Cantidad_inv = ultimo_registro.Cantidad_inv

\* coincidencias[coincidencias].index: the rows equal to the last record
Coincidencias(filtrado, ultimo_registro) ==
    {i \in DOMAIN filtrado : Coincide(filtrado[i], ultimo_registro)}

\* df_filtrado_fecha.loc[idx + 1:] with idx = coincidencias.index[0]
DesdeLaPrimeraCoincidencia(filtrado, coincidencias) ==
    SubSeq(filtrado,
           (CHOOSE i \in coincidencias : \A j \in coincidencias : i <= j) + 1,
           Len(filtrado))

NuevosDesde(filtrado, coincidencias) ==
    IF coincidencias = {} THEN None
    ELSE DesdeLaPrimeraCoincidencia(filtrado, coincidencias)

filtrar_registros_nuevos_ventas(df_entrada, df_consolidado) ==
    NuevosDesde(df_filtrado_fecha(df_entrada, df_consolidado),
                Coincidencias(df_filtrado_fecha(df_entrada, df_consolidado),
                              df_consolidado[Len(df_consolidado)]))

----------------------------------------------------------------------------
(* Function harness: one call of a pure function per behaviour *)

Anios == AnioBase..(AnioBase + NumAnios - 1)

LlamadasSiguienteMes ==
    {[fn |-> "obtener_siguiente_mes", mes_actual |-> m, anio_actual |-> a] :
        m \in Range(MesesValidos), a \in Anios}

\* rows a history can hold; two rows of MAKRO record JUN 2025
FilasDeHistoria ==
    {FilaHistoria("MAY", 2025, MAKRO_SUPERMAYORISTA_SAS, 90),
     FilaHistoria("JUN", 2025, MAKRO_SUPERMAYORISTA_SAS, 100),
     FilaHistoria("JUN", 2025, MAKRO_SUPERMAYORISTA_SAS, 95),
     FilaHistoria("DIC", 2024, MAKRO_SUPERMAYORISTA_SAS, 80),
     FilaHistoria("JUN", 2025, PROMOTORA_DE_COMERCIO_SOCIAL, 50),
     FilaHistoria("DIC", 2025, PROMOTORA_DE_COMERCIO_SOCIAL, 60)}

SecuenciasHasta(S, n) == UNION {[1..k -> S] : k \in 1..n}

LlamadasUltimoMes ==
    {[fn |-> "obtener_ultimo_mes_cliente", consolidado_sell_out |-> t,
      nombre_cliente |-> c] :
        t \in SecuenciasHasta(FilasDeHistoria, MaxFilasHistoria),
        c \in {MAKRO_SUPERMAYORISTA_SAS, PROMOTORA_DE_COMERCIO_SOCIAL,
               FARMATODO_COLOMBIA_SA}}

\* store labels: every text of up to MaxLargoEtiqueta pieces, the labels
\* with a fixed city, labels of the Makro sheet, a missing cell and a cell
\* that holds a number
Etiquetas ==
    SecuenciasHasta({"BOGOTA", "UNICENTRO", " ", "-"}, MaxLargoEtiqueta)
    \cup {NaNTexto, NumeroEntero, <<>>, T_BOGOTA_UNICENTRO,
          CARULLA_PRADERA_DE_POTOSI,
          <<" ">> \o CARULLA_PRADERA_DE_POTOSI \o <<" ">>,
          CARULLA_MANIZALES, CARULLA_PLAZA_CLARO \o <<" ">>,
          <<"BOGOTA", " ", "-", " ", "UNICENTRO", " ", "-", " ", "NORTE">>,
          <<"12", " ", "-", " ", "Makro", " ", "Calle", " ", "30">>,
          <<"Estacion", " ", "Poblado">>,
          <<"7", "-", "cali", " ", "-", " ", "norte">>,
          <<"CALI", " ", "-", " ", "NORTE">>,
          <<"30", "-", "Cumara">>,
          <<"3", " ", "-", " ", "Cumara", " ", "-", " ", "BOGOTA">>}

LlamadasSeparar ==
    {[fn |-> f, nombre |-> e] :
        f \in {"separar_tienda_ciudad", "separar_tienda_ciudad_makro"},
        e \in Etiquetas}

\* month codes as they may be written: the 12 codes, codes in lower case
\* and capitalised, and texts that are no code
LlamadasNumeroMes ==
    {[fn |-> "obtener_numero_mes", nombre_mes |-> w] :
        w \in Range(MesesValidos)
               \cup {"ene", "Ene", "jul", "Jun", "ago", "dic", "Dic"}
               \cup {"XYZ", "xyz", "ENERO", "13", ""}}

\* sales rows: the client, the brand, the package label and the quantity
LlamadasCantidadSellInt ==
    {[fn |-> "calcular_cantidad_sell_int",
      row |-> [Razon_social |-> c, Marca |-> b, Cantidades |-> k,
               Cantidad_inv |-> q]] :
        c \in {MAKRO_SUPERMAYORISTA_SAS, FARMATODO_COLOMBIA_SA},
        b \in {"001 - NATURESSE", "002 - OTRA"},
        k \in {"15GR X 12UND X 32PQ", "48UND", "6UND", "1UND", "NA"},
        q \in {0, 10, 15, 120, NaNNumero}}

\* file names as they may be written: every sequence of up to MaxLargoNombre
\* pieces, and names of MAKRO
LlamadasValidarFormato ==
    {[fn |-> "validar_formato_nombre_archivo", nombre_archivo |-> n,
      tipo_cliente |-> "PROMOTORA"] :
        n \in {<<>>} \cup SecuenciasHasta({"JUL", "dic", "XYZ", "PROMOTORA",
                                           "promotora", "_", ".xlsx"},
                                          MaxLargoNombre)}
    \cup {[fn |-> "validar_formato_nombre_archivo", nombre_archivo |-> n,
           tipo_cliente |-> "MAKRO"] :
        n \in {<<"ene", "_", "Makro", ".xlsx">>,
               <<"JUL", "_", "MAKRO", ".XLSX">>,
               <<"JUL", "_", "PROMOTORA", ".xlsx">>}}

\* sales rows of two days, with a quantity or without one
FilasDeVentas ==
    {FilaVenta(d, q) : d \in {1, 2}, q \in {5, NaNNumero}}

\* an input of up to MaxFilasVentas rows against a consolidated table of
\* one row or more
LlamadasFiltrarNuevos ==
    {[fn |-> "filtrar_registros_nuevos_ventas", df_entrada |-> e,
      df_consolidado |-> c] :
        e \in {<<>>} \cup SecuenciasHasta(FilasDeVentas, MaxFilasVentas),
        c \in SecuenciasHasta(FilasDeVentas, MaxFilasVentas - 1)}

InitFunciones ==
    /\ pc = "llamar"
    /\ llamada \in LlamadasSiguienteMes \cup LlamadasUltimoMes
                   \cup LlamadasSeparar \cup LlamadasNumeroMes
                   \cup LlamadasCantidadSellInt
                   \cup LlamadasValidarFormato
                   \cup LlamadasFiltrarNuevos
    /\ retorno = None
    /\ corrida = 0
    /\ archivo_sell_out = <<>>
    /\ archivo_ciudades = CiudadesInicial
    /\ config = [c \in Range(Clientes) |-> Entrada(SinNombre, FALSE)]
    /\ datos = None
    /\ retornos = [sell_out |-> SinRetornos, ciudades |-> SinRetornos]
    /\ salida_sell_out = <<>>
    /\ salida_ciudades = None
    /\ historia_inicial = [sell_out |-> <<>>, ciudades |-> CiudadesInicial]
    /\ anexados = [sell_out |-> <<>>, ciudades |-> <<>>]

LlamarObtenerSiguienteMes ==
    /\ pc = "llamar"
    /\ llamada.fn = "obtener_siguiente_mes"
    /\ retorno' = obtener_siguiente_mes(llamada.mes_actual, llamada.anio_actual)
    /\ pc' = "retornado"
    /\ UNCHANGED <<llamada, corridaVars>>

LlamarObtenerUltimoMesCliente ==
    /\ pc = "llamar"
    /\ llamada.fn = "obtener_ultimo_mes_cliente"
    /\ retorno' = obtener_ultimo_mes_cliente(llamada.consolidado_sell_out,
                                             llamada.nombre_cliente)
    /\ pc' = "retornado"
    /\ UNCHANGED <<llamada, corridaVars>>

LlamarSepararTiendaCiudad ==
    /\ pc = "llamar"
    /\ llamada.fn = "separar_tienda_ciudad"
    /\ retorno' = separar_tienda_ciudad(llamada.nombre)
    /\ pc' = "retornado"
    /\ UNCHANGED <<llamada, corridaVars>>

LlamarSepararTiendaCiudadMakro ==
    /\ pc = "llamar"
    /\ llamada.fn = "separar_tienda_ciudad_makro"
    /\ retorno' = separar_tienda_ciudad_makro(llamada.nombre)
    /\ pc' = "retornado"
    /\ UNCHANGED <<llamada, corridaVars>>

LlamarObtenerNumeroMes ==
    /\ pc = "llamar"
    /\ llamada.fn = "obtener_numero_mes"
    /\ retorno' = obtener_numero_mes(llamada.nombre_mes)
    /\ pc' = "retornado"
    /\ UNCHANGED <<llamada, corridaVars>>

LlamarCalcularCantidadSellInt ==
    /\ pc = "llamar"
    /\ llamada.fn = "calcular_cantidad_sell_int"
    /\ retorno' = calcular_cantidad_sell_int(llamada.row)
    /\ pc' = "retornado"
    /\ UNCHANGED <<llamada, corridaVars>>

LlamarValidarFormatoNombreArchivo ==
    /\ pc = "llamar"
    /\ llamada.fn = "validar_formato_nombre_archivo"
    /\ retorno' = validar_formato_nombre_archivo(
                       PartesDelNombre(llamada.nombre_archivo),
                       llamada.tipo_cliente)
    /\ pc' = "retornado"
    /\ UNCHANGED <<llamada, corridaVars>>

LlamarFiltrarRegistrosNuevosVentas ==
    /\ pc = "llamar"
    /\ llamada.fn = "filtrar_registros_nuevos_ventas"
    /\ retorno' = filtrar_registros_nuevos_ventas(llamada.df_entrada,
                                                  llamada.df_consolidado)
    /\ pc' = "retornado"
    /\ UNCHANGED <<llamada, corridaVars>>

NextFunciones ==
    \/ LlamarCalcularCantidadSellInt
    \/ LlamarFiltrarRegistrosNuevosVentas
    \/ LlamarValidarFormatoNombreArchivo
    \/ LlamarObtenerNumeroMes
    \/ LlamarObtenerSiguienteMes
    \/ LlamarObtenerUltimoMesCliente
    \/ LlamarSepararTiendaCiudad
    \/ LlamarSepararTiendaCiudadMakro

SpecFunciones == InitFunciones /\ [][NextFunciones]_vars

----------------------------------------------------------------------------
(* Periods, as the claims speak of them *)

\* ordinal 1..12 of a month code, by its place in the list of valid codes
Ordinal(mes) == Indice(MesesValidos, mes)

Periodo(fila) == <<fila.Mes, fila.anio>>

\* a is no later than b
PeriodoMenorIgual(a, b) ==
    a[2] < b[2] \/ (a[2] = b[2] /\ Ordinal(a[1]) <= Ordinal(b[1]))

Sucesor(p) ==
    IF p[1] = "DIC" THEN <<"ENE", p[2] + 1>>
    ELSE <<MesesValidos[Ordinal(p[1]) + 1], p[2]>>

FilasDelCliente(tabla, cliente) ==
    SelectSeq(tabla, LAMBDA f : f.cliente = cliente)

\* every row of the client in the table carries one of the 12 month codes
ConMesesValidos(tabla, cliente) ==
    \A i \in DOMAIN tabla :
        tabla[i].cliente = cliente => tabla[i].Mes \in Range(MesesValidos)

Permutaciones(n) ==
    {p \in [1..n -> 1..n] : \A i, j \in 1..n : i # j => p[i] # p[j]}

Permutar(t, p) == [i \in DOMAIN t |-> t[p[i]]]

----------------------------------------------------------------------------
(* C5 *)

RetornoSiguienteMes ==
    pc = "retornado" /\ llamada.fn = "obtener_siguiente_mes"

\* C5: for each of the 12 month codes and every year, obtener_siguiente_mes
\* returns (ENE, year + 1) for DIC and otherwise the code of the next ordinal
\* with the same year; it returns a value for all 12 codes, and the call
\* changes nothing but its own result.
C5_SiguienteMes ==
    /\ [](RetornoSiguienteMes =>
            /\ ~Raised(retorno)
            /\ retorno.val = IF llamada.mes_actual = "DIC"
                             THEN <<"ENE", llamada.anio_actual + 1>>
                             ELSE <<MesesValidos[Ordinal(llamada.mes_actual) + 1],
                                    llamada.anio_actual>>)
    /\ [][llamada.fn = "obtener_siguiente_mes" =>
              UNCHANGED <<llamada, corridaVars>>]_vars

C5_Witness ==
    /\ RetornoSiguienteMes
    /\ llamada.mes_actual = "DIC"
    /\ retorno.val = <<"ENE", llamada.anio_actual + 1>>

----------------------------------------------------------------------------
(* C4 *)

RetornoUltimoMes ==
    /\ pc = "retornado"
    /\ llamada.fn = "obtener_ultimo_mes_cliente"
    /\ FilasDelCliente(llamada.consolidado_sell_out, llamada.nombre_cliente) # <<>>

\* the value returned is a row of the client that no row of the client
\* follows, with the successor of its period as the next period
DevuelveElMaximo ==
    LET filas == FilasDelCliente(llamada.consolidado_sell_out,
                                 llamada.nombre_cliente)
    IN  /\ ~EsError(retorno)
        /\ \E i \in DOMAIN filas :
              /\ filas[i].Mes = retorno.ultimo_mes
              /\ filas[i].anio = retorno.ultimo_anio
              /\ filas[i].Unidades = retorno.unidades
        /\ \A i \in DOMAIN filas :
              PeriodoMenorIgual(Periodo(filas[i]),
                                <<retorno.ultimo_mes, retorno.ultimo_anio>>)
        /\ retorno.siguiente_mes = Sucesor(<<retorno.ultimo_mes, retorno.ultimo_anio>>)

RetornosPermutados ==
    {obtener_ultimo_mes_cliente(Permutar(llamada.consolidado_sell_out, p),
                                llamada.nombre_cliente) :
        p \in Permutaciones(Len(llamada.consolidado_sell_out))}

\* the client has one row only for its latest period
UltimoPeriodoUnico ==
    LET filas == FilasDelCliente(llamada.consolidado_sell_out,
                                 llamada.nombre_cliente)
    IN  Cardinality({i \in DOMAIN filas :
            \A j \in DOMAIN filas :
                PeriodoMenorIgual(Periodo(filas[j]), Periodo(filas[i]))}) = 1

\* C4 as stated: the maximal row and its successor are returned, and the
\* whole result is the same for every permutation of the rows of the table.
C4_Original ==
    RetornoUltimoMes =>
        /\ DevuelveElMaximo
        /\ \A r \in RetornosPermutados : r = retorno

\* C4 as amended: the value returned is a row of the client that is maximal
\* by (year, month number) together with the successor of its period; the
\* latest period, the next period and the row count are the same for every
\* permutation of the rows, and the whole result is too when the client has
\* a single row for its latest period.
C4_UltimoMesCliente ==
    RetornoUltimoMes =>
        /\ DevuelveElMaximo
        /\ \A r \in RetornosPermutados :
              /\ ~EsError(r)
              /\ r.ultimo_mes = retorno.ultimo_mes
              /\ r.ultimo_anio = retorno.ultimo_anio
              /\ r.siguiente_mes = retorno.siguiente_mes
              /\ r.total_registros = retorno.total_registros
              /\ (UltimoPeriodoUnico => r = retorno)

C4_Witness ==
    /\ RetornoUltimoMes
    /\ llamada.nombre_cliente = MAKRO_SUPERMAYORISTA_SAS
    /\ llamada.consolidado_sell_out =
          <<FilaHistoria("JUN", 2025, MAKRO_SUPERMAYORISTA_SAS, 100),
            FilaHistoria("MAY", 2025, MAKRO_SUPERMAYORISTA_SAS, 90)>>
    /\ retorno.ultimo_mes = "JUN" /\ retorno.ultimo_anio = 2025
    /\ retorno.unidades = 100
    /\ retorno.siguiente_mes = <<"JUL", 2025>>

----------------------------------------------------------------------------
(* The run, as the claims speak of it *)

Empresa(c) == clientes_info[c].empresa_nombre

TablaDelCliente(d, c) ==
    CASE c = "PROMOTORA" -> d.tabla_cliente_promotora
      [] c = "MAKRO" -> d.tabla_cliente_makro
      [] c = "FARMATODO" -> d.tabla_cliente_farmatodo

\* datos and config are those of the run in progress
EnCorrida == pc \in {"cargado", "sell_out_guardado", "fin", "abortado"}

SellOutEscrito == pc \in {"sell_out_guardado", "fin"}
CiudadesEscrito == pc = "fin"

MaxPeriodo(filas) ==
    CHOOSE p \in {Periodo(filas[i]) : i \in DOMAIN filas} :
        \A j \in DOMAIN filas : PeriodoMenorIgual(Periodo(filas[j]), p)

\* the period that is due for a client with at least one row in the table
PeriodoEsperado(tabla, empresa) ==
    Sucesor(MaxPeriodo(FilasDelCliente(tabla, empresa)))

Desde(tabla, n) == SubSeq(tabla, n + 1, Len(tabla))

\* rows of the written tables that the loaded histories did not hold
NuevasSellOut == Desde(salida_sell_out, Len(datos.tabla_sell_out_consolidado))
NuevasCiudades ==
    Desde(salida_ciudades.filas,
          Len(datos.tabla_sell_out_ciudades_consolidado.filas))

----------------------------------------------------------------------------
(* C1 *)

SinPeriodoDuplicado(tabla, empresa) ==
    LET filas == FilasDelCliente(tabla, empresa)
    IN  \A i, j \in DOMAIN filas : i # j => Periodo(filas[i]) # Periodo(filas[j])

\* every period of the client but the earliest follows another of its periods
SinHuecos(tabla, empresa) ==
    LET filas == FilasDelCliente(tabla, empresa)
        periodos == {Periodo(filas[i]) : i \in DOMAIN filas}
    IN  \A p \in periodos :
            \/ \A q \in periodos : PeriodoMenorIgual(p, q)
            \/ \E q \in periodos : Sucesor(q) = p

\* every row behind the seed history follows the latest period that the
\* rows before it record for its client
SinRegresion(tabla) ==
    \A i \in DOMAIN tabla :
        i > Len(historia_inicial.sell_out) =>
            LET previas == FilasDelCliente(SubSeq(tabla, 1, i - 1), tabla[i].cliente)
            IN  previas # <<>> /\ Periodo(tabla[i]) = Sucesor(MaxPeriodo(previas))

TablasAgregadas ==
    {archivo_sell_out} \cup (IF SellOutEscrito THEN {salida_sell_out} ELSE {})

\* C1: for each client whose rows in the seed history are a duplicate-free,
\* gap-free monthly sequence, after any sequence of runs the aggregate table
\* (the installed one and the one just written) holds for the client no
\* duplicate (month, year), no gap, and no row that goes back in time.
C1_SecuenciaMensual ==
    \A t \in TablasAgregadas :
        /\ \A c \in Range(Clientes) :
              ConMesesValidos(historia_inicial.sell_out, Empresa(c)) =>
                  SinPeriodoDuplicado(t, Empresa(c)) /\ SinHuecos(t, Empresa(c))
        /\ SinRegresion(t)

C1_Witness ==
    /\ pc = "inicio"
    /\ corrida = 2
    /\ {Periodo(FilasDelCliente(archivo_sell_out, PROMOTORA_DE_COMERCIO_SOCIAL)[i]) :
           i \in 1..Len(FilasDelCliente(archivo_sell_out, PROMOTORA_DE_COMERCIO_SOCIAL))}
         = {<<"JUN", 2025>>, <<"JUL", 2025>>, <<"AGO", 2025>>}
    /\ \E i \in DOMAIN archivo_sell_out :
          /\ archivo_sell_out[i].cliente = FARMATODO_COLOMBIA_SA
          /\ Periodo(archivo_sell_out[i]) = <<"ENE", 2026>>

----------------------------------------------------------------------------
(* The reshaper calls, as the claims speak of them *)

\* the values returned to the two merges of the run in progress by the
\* reshaper of client c that hold a summary and a batch of detail rows
ResultadosDe(c) ==
    {r \in {retornos.sell_out[c], retornos.ciudades[c]} :
        r.tipo = "tupla" /\ r.consolidado # None}

EsperadoDe(c) == PeriodoEsperado(datos.tabla_sell_out_consolidado, Empresa(c))

\* the rows of the raw input that the reshaper of c groups
AntesDeAgrupar(c) ==
    CASE c = "PROMOTORA" -> FilasPromotora(datos)
      [] c = "MAKRO" -> FilasMakro(datos, EsperadoDe(c))
      [] c = "FARMATODO" -> FilasFarmatodo(datos, EsperadoDe(c))

\* a month written as a code, as the label of the Makro sheet in lower case
\* or as strftime writes it
MesDenota(mes, codigo) ==
    \/ mes = codigo
    \/ mes = lower_mes(meses_makro[codigo])
    \/ mes = strftime_B_lower(Ordinal(codigo))

\* units of the raw rows of client c that belong to period p
UnidadesCrudasDelPeriodo(c, p) ==
    CASE c = "PROMOTORA" ->
            SumaUnidades(SelectSeq(datos.tabla_cliente_promotora.filas,
                LAMBDA f : ~f.Fecha.nat /\ f.Fecha.anio = p[2]
                           /\ f.Fecha.mes = Ordinal(p[1])))
      [] c = "MAKRO" ->
            SumSeq([i \in DOMAIN datos.tabla_cliente_makro.filas |->
                LET cde == datos.tabla_cliente_makro.filas[i].Cde
                IN  IF meses_makro[p[1]] \in DOMAIN cde
                       /\ cde[meses_makro[p[1]]] # NaNNumero
                    THEN cde[meses_makro[p[1]]] ELSE 0])
      [] c = "FARMATODO" ->
            SumaUnidadesVendidas(datos.tabla_cliente_farmatodo.filas)

----------------------------------------------------------------------------
(* C2 *)

\* C2: every detail row a reshaper returns carries the expected next period
\* of its client, the summary is for that period, and raw rows of another
\* month or year are neither emitted nor counted in the summary total.
C2_Claim ==
    EnCorrida =>
        \A c \in Range(Clientes) : \A r \in ResultadosDe(c) :
            /\ Periodo(r.consolidado) = EsperadoDe(c)
            /\ \A i \in DOMAIN r.ventas.filas :
                  /\ MesDenota(r.ventas.filas[i].Mes, EsperadoDe(c)[1])
                  /\ r.ventas.filas[i].anio = EsperadoDe(c)[2]
            /\ r.consolidado.Unidades <= UnidadesCrudasDelPeriodo(c, EsperadoDe(c))

----------------------------------------------------------------------------
(* C3 *)

\* the entry names a file that exists and whose name is MES_CLIENTE
NombreConMes(cfg, c) ==
    /\ cfg.existe
    /\ Len(cfg.nombre_archivo) = 2
    /\ upper_palabra(cfg.nombre_archivo[1]) \in Range(MesesValidos)
    /\ upper_palabra(cfg.nombre_archivo[2]) = c

MesDelNombre(cfg) == upper_palabra(cfg.nombre_archivo[1])

\* the month in the name of the file of c is not the month that is due
MesEquivocado(c) ==
    /\ NombreConMes(config[c], c)
    /\ FilasDelCliente(datos.tabla_sell_out_consolidado, Empresa(c)) # <<>>
    /\ ConMesesValidos(datos.tabla_sell_out_consolidado, Empresa(c))
    /\ MesDelNombre(config[c]) # EsperadoDe(c)[1]

SinFilasNuevasDe(c) ==
    /\ SellOutEscrito =>
          \A i \in DOMAIN NuevasSellOut : NuevasSellOut[i].cliente # Empresa(c)
    /\ CiudadesEscrito =>
          \A i \in DOMAIN NuevasCiudades : NuevasCiudades[i].cliente # Empresa(c)

\* C3: a client whose file name carries a month other than the expected
\* next month is not processable, has no raw input in the run, adds no row
\* to either table, and its message names the month found and the month
\* expected.
C3_MesEquivocado ==
    EnCorrida =>
        \A c \in Range(Clientes) :
            MesEquivocado(c) =>
                /\ ~datos.validaciones[c].procesable
                /\ TablaDelCliente(datos, c) = None
                /\ "mes_archivo" \in DOMAIN datos.validaciones[c].mensaje
                /\ datos.validaciones[c].mensaje.mes_archivo = MesDelNombre(config[c])
                /\ datos.validaciones[c].mensaje.mes_esperado = EsperadoDe(c)[1]
                /\ SinFilasNuevasDe(c)

C3_Witness ==
    /\ pc = "fin"
    /\ MesEquivocado("PROMOTORA")
    /\ datos.validaciones["PROMOTORA"].mensaje.texto = "ya procesado"
    /\ MesEquivocado("FARMATODO")
    /\ \E i \in DOMAIN NuevasSellOut :
          NuevasSellOut[i].cliente = MAKRO_SUPERMAYORISTA_SAS

----------------------------------------------------------------------------
(* C6 *)

\* C6: for every reshaper call that returns a result, whatever the raw
\* input (rows with missing key fields included), the units of the summary
\* equal the sum of the units of the detail rows of that call and the sum
\* of the raw units before grouping.
C6_Claim ==
    EnCorrida =>
        \A c \in Range(Clientes) : \A r \in ResultadosDe(c) :
            /\ r.consolidado.Unidades = SumaUnidades(r.ventas.filas)
            /\ r.consolidado.Unidades = SumaUnidades(AntesDeAgrupar(c))

----------------------------------------------------------------------------
(* C7 *)

FilasConClave(filas, k) == SelectSeq(filas, LAMBDA f : Clave(f) = k)

\* C7: the detail rows of one reshaper call hold at most one row per key
\* (product id, month, year, store, city, description), and the units of
\* that row are the sum of the units of all raw rows that map to the key.
C7_UnaFilaPorClave ==
    EnCorrida =>
        \A c \in Range(Clientes) : \A r \in ResultadosDe(c) :
            LET filas == r.ventas.filas
            IN  /\ \A i, j \in DOMAIN filas :
                      i # j => Clave(filas[i]) # Clave(filas[j])
                /\ \A i \in DOMAIN filas :
                      filas[i].Unidades =
                          SumaUnidades(FilasConClave(AntesDeAgrupar(c),
                                                     Clave(filas[i])))

\* two raw rows of one key with 10 and 15 units came back as one row of 25
C7_Witness ==
    /\ pc = "fin"
    /\ \E c \in Range(Clientes) : \E r \in ResultadosDe(c) :
         \E i \in DOMAIN r.ventas.filas :
            LET crudas == FilasConClave(AntesDeAgrupar(c), Clave(r.ventas.filas[i]))
            IN  /\ r.ventas.filas[i].Unidades = 25
                /\ Len(crudas) = 2
                /\ {crudas[1].Unidades, crudas[2].Unidades} = {10, 15}

----------------------------------------------------------------------------
(* C8 *)

EsPrefijo(a, b) == Len(a) <= Len(b) /\ SubSeq(b, 1, Len(a)) = a

\* the clients of the rows come in the order of Clientes
EnOrdenDeClientes(filas) ==
    \A i, j \in DOMAIN filas :
        i < j => \E a, b \in DOMAIN Clientes :
                    /\ a <= b
                    /\ filas[i].cliente = Empresa(Clientes[a])
                    /\ filas[j].cliente = Empresa(Clientes[b])

\* C8: each written table is the loaded history, every row unchanged and in
\* its order, followed by the new rows of the run in the client order
\* PROMOTORA, MAKRO, FARMATODO; over successive runs the installed tables
\* are the seed history followed by every batch in the order it was merged.
C8_SoloAnexa ==
    /\ SellOutEscrito =>
          /\ EsPrefijo(datos.tabla_sell_out_consolidado, salida_sell_out)
          /\ NuevasSellOut = ResumenesDevueltos(retornos.sell_out)
          /\ EnOrdenDeClientes(NuevasSellOut)
    /\ CiudadesEscrito =>
          /\ EsPrefijo(datos.tabla_sell_out_ciudades_consolidado.filas,
                       salida_ciudades.filas)
          /\ NuevasCiudades = VentasDevueltas(retornos.ciudades)
          /\ EnOrdenDeClientes(NuevasCiudades)
    /\ archivo_sell_out = historia_inicial.sell_out \o anexados.sell_out
    /\ archivo_ciudades.filas = historia_inicial.ciudades.filas \o anexados.ciudades

\* a second run wrote its rows behind the rows of a first run of two clients
C8_Witness ==
    /\ pc = "fin"
    /\ Len(anexados.sell_out) >= 2
    /\ Len(NuevasSellOut) >= 1
    /\ NuevasCiudades # <<>>
    /\ salida_sell_out =
          historia_inicial.sell_out \o anexados.sell_out \o NuevasSellOut

----------------------------------------------------------------------------
(* C9 *)

Ausentes == {c \in Range(Clientes) : TablaDelCliente(datos, c) = None}

\* datos with a raw input for every client: the absent ones get one of
\* their possible inputs
ConTodosPresentes ==
    {d \in [tabla_sell_out_consolidado : {datos.tabla_sell_out_consolidado},
            tabla_sell_out_ciudades_consolidado :
                {datos.tabla_sell_out_ciudades_consolidado},
            tabla_cliente_promotora :
                IF "PROMOTORA" \in Ausentes THEN TablasCliente("PROMOTORA")
                ELSE {datos.tabla_cliente_promotora},
            tabla_cliente_makro :
                IF "MAKRO" \in Ausentes THEN TablasCliente("MAKRO")
                ELSE {datos.tabla_cliente_makro},
            tabla_cliente_farmatodo :
                IF "FARMATODO" \in Ausentes THEN TablasCliente("FARMATODO")
                ELSE {datos.tabla_cliente_farmatodo},
            validaciones : {datos.validaciones}] :
        Completo(LlamarReshapers(d))}

FilasDe(filas, c) == SelectSeq(filas, LAMBDA f : f.cliente = Empresa(c))

\* C9: in a run that writes both tables, a client whose raw input is absent
\* adds no row to either table, and the rows appended for each present
\* client are the rows it appends in the run where every client is present.
C9_AusentesSinEfecto ==
    pc = "fin" =>
        /\ \A c \in Ausentes : SinFilasNuevasDe(c)
        /\ \A d \in ConTodosPresentes : \E devueltos \in {LlamarReshapers(d)} :
              \E resumenes \in {Desde(actualizar_consolidado(
                                       d.tabla_sell_out_consolidado, devueltos),
                                   Len(d.tabla_sell_out_consolidado))} :
              \E ventas \in {Desde(actualizar_consolidado_sell_out_ciudades(
                                    d.tabla_sell_out_ciudades_consolidado,
                                    devueltos).filas,
                                Len(d.tabla_sell_out_ciudades_consolidado.filas))} :
                  \A c \in Range(Clientes) \ Ausentes :
                      /\ FilasDe(NuevasSellOut, c) = FilasDe(resumenes, c)
                      /\ FilasDe(NuevasCiudades, c) = FilasDe(ventas, c)

\* PROMOTORA absent, the two clients behind it present and appended
C9_Witness ==
    /\ pc = "fin"
    /\ Ausentes = {"PROMOTORA"}
    /\ ConTodosPresentes # {}
    /\ FilasDe(NuevasSellOut, "MAKRO") # <<>>
    /\ FilasDe(NuevasCiudades, "FARMATODO") # <<>>

----------------------------------------------------------------------------
(* C10 *)

SinColumnaDeUnidades(c) ==
    /\ TablaDelCliente(datos, c) # None
    /\ CASE c = "PROMOTORA" -> "Unidades" \notin datos.tabla_cliente_promotora.columnas
         [] c = "MAKRO" ->
               \A m \in Range(MesesValidos) :
                   meses_makro[m] \notin datos.tabla_cliente_makro.columnas
         [] c = "FARMATODO" ->
               "UNIDADES_VENDIDAS" \notin datos.tabla_cliente_farmatodo.columnas

ProcesarCliente(c, d) ==
    CASE c = "PROMOTORA" -> procesar_promotora(d)
      [] c = "MAKRO" -> procesar_makro(d)
      [] c = "FARMATODO" -> procesar_farmatodo(d)

\* C10: when the raw input of a client has no units column and the other
\* clients reshape, the client adds no row to either table, the run goes on
\* and writes both tables, with the rows of the other clients appended.
C10_Claim ==
    (EnCorrida /\ pc # "cargado") =>
        \A c \in Range(Clientes) :
            (/\ SinColumnaDeUnidades(c)
             /\ \A o \in Range(Clientes) \ {c} :
                   ProcesarCliente(o, datos).tipo = "tupla")
            => /\ pc # "abortado"
               /\ SinFilasNuevasDe(c)
               /\ SellOutEscrito =>
                     \A o \in Range(Clientes) \ {c} :
                        ProcesarCliente(o, datos).consolidado # None =>
                            FilasDe(NuevasSellOut, o) # <<>>

----------------------------------------------------------------------------
(* C11 *)

\* the history that the run loaded holds no row of client c
SinHistoria(c) ==
    FilasDelCliente(datos.tabla_sell_out_consolidado, Empresa(c)) = <<>>

\* the run was not ended by an exception unless the reshaper of a client
\* other than c raised, and the clients other than c that reshape to a
\* summary have their rows in the tables that were written
LosDemasProcesados(c) ==
    /\ (\A o \in Range(Clientes) \ {c} :
           ProcesarCliente(o, datos).tipo = "tupla") => pc # "abortado"
    /\ \A o \in Range(Clientes) \ {c} :
          ProcesarCliente(o, datos).tipo = "tupla"
          /\ ProcesarCliente(o, datos).consolidado # None =>
              /\ SellOutEscrito => FilasDe(NuevasSellOut, o) # <<>>
              /\ CiudadesEscrito =>
                    FilasDe(NuevasCiudades, o) =
                        ProcesarCliente(o, datos).ventas.filas

----------------------------------------------------------------------------
(* C12 *)

\* the month that is due for c is the month in the name of its file
MesDebido(c) ==
    /\ ~SinHistoria(c)
    /\ MesDelNombre(config[c]) = EsperadoDe(c)[1]

----------------------------------------------------------------------------
(* C13 *)

\* the file of c passed the validation and could not be read
LecturaFallida(c) ==
    datos.validaciones[c].procesable /\ TablaDelCliente(datos, c) = None

\* a run ends on an exception only when a history could not be read
SoloLasHistoriasAbortan == pc # "abortado"

\* a history that cannot be read ends the run with no validation made and
\* nothing written
FalloDeHistoriaAntesDeTodo ==
    /\ [](pc = "carga_fallida" => datos = None)
    /\ [][pc' = "carga_fallida" =>
              UNCHANGED <<archivo_sell_out, archivo_ciudades, salida_sell_out,
                          salida_ciudades>>]_vars

\* a client file that cannot be read leaves the client absent; the other
\* processable clients are loaded and processed
FalloDeClienteConfinado ==
    EnCorrida =>
        \A c \in Range(Clientes) :
            LecturaFallida(c) =>
                /\ ProcesarCliente(c, datos) = Tupla(None, None)
                /\ SinFilasNuevasDe(c)
                /\ \A o \in Range(Clientes) \ {c} :
                      datos.validaciones[o].procesable =>
                          TablaDelCliente(datos, o) # None
                /\ LosDemasProcesados(c)

\* C13: a run is aborted only by a failure to read one of the two
\* histories, which ends it before any client is validated and before
\* anything is written; a client file that cannot be read makes the client
\* absent while the other clients are loaded and processed.
C13_Claim ==
    /\ []SoloLasHistoriasAbortan
    /\ FalloDeHistoriaAntesDeTodo
    /\ []FalloDeClienteConfinado

----------------------------------------------------------------------------
(* C14 *)

\* the raw input of c is there and none of its rows reaches the grouping
SinFilasDeDetalle(c) ==
    /\ TablaDelCliente(datos, c) # None
    /\ ~SinHistoria(c)
    /\ AntesDeAgrupar(c) = <<>>

\* C14: when the reshaping of a client yields no detail row (the Makro
\* sheet has no column for the expected month, say) and the other clients
\* reshape, the run does not fail and the client adds neither a summary row
\* nor a detail row.
C14_Claim ==
    (EnCorrida /\ pc # "cargado") =>
        \A c \in Range(Clientes) :
            (/\ SinFilasDeDetalle(c)
             /\ \A o \in Range(Clientes) \ {c} :
                   ProcesarCliente(o, datos).tipo = "tupla")
            => /\ pc # "abortado"
               /\ retornos.sell_out[c] = Tupla(None, None)
               /\ SinFilasNuevasDe(c)

----------------------------------------------------------------------------
(* C15 *)

RetornoSeparar ==
    pc = "retornado" /\ llamada.fn = "separar_tienda_ciudad"

\* the labels with a fixed pair, as the table of the resolver lists them
ParesFijos ==
    {<<CARULLA_PRADERA_DE_POTOSI, <<"POTOSI">>>>,
     <<CARULLA_MANIZALES, <<"MANIZALES">>>>,
     <<CARULLA_PLAZA_CLARO, <<"BOGOTA">>>>}

\* C15: separar_tienda_ciudad returns the fixed (store, city) pair of every
\* label whose trimmed text is a key of the override table, never the
\* unknown-city fallback; 'CARULLA PRADERA DE POTOSI' gives
\* ('CARULLA PRADERA DE POTOSI', 'POTOSI').
C15_ExcepcionesPrimero ==
    (RetornoSeparar /\ EsTexto(llamada.nombre)) =>
        \A par \in ParesFijos :
            strip(llamada.nombre) = par[1] =>
                /\ ~Raised(retorno)
                /\ retorno.val = par
                /\ retorno.val[2] # CIUDAD_DESCONOCIDA

C15_Witness ==
    /\ RetornoSeparar
    /\ llamada.nombre = <<" ">> \o CARULLA_PRADERA_DE_POTOSI \o <<" ">>
    /\ retorno.val = <<CARULLA_PRADERA_DE_POTOSI, <<"POTOSI">>>>

----------------------------------------------------------------------------
(* C16 *)

\* the label has one hyphen, at position k, with text on both sides
DosPartes(t, k) ==
    /\ k \in DOMAIN t
    /\ t[k] = "-"
    /\ \A j \in DOMAIN t : t[j] = "-" => j = k
    /\ strip(SubSeq(t, 1, k - 1)) # <<>>
    /\ strip(SubSeq(t, k + 1, Len(t))) # <<>>

\* C16: for a label that is not an override and is two non-empty parts
\* around one hyphen, separar_tienda_ciudad returns (first part trimmed,
\* second part trimmed), the store first and the city second;
\* 'BOGOTA - UNICENTRO' gives ('BOGOTA', 'UNICENTRO').
C16_DosPartesPorGuion ==
    (RetornoSeparar /\ EsTexto(llamada.nombre)) =>
        \A k \in DOMAIN llamada.nombre :
            (/\ DosPartes(llamada.nombre, k)
             /\ \A par \in ParesFijos : strip(llamada.nombre) # par[1])
            => /\ ~Raised(retorno)
               /\ retorno.val =
                     <<strip(SubSeq(llamada.nombre, 1, k - 1)),
                       strip(SubSeq(llamada.nombre, k + 1, Len(llamada.nombre)))>>

C16_Witness ==
    /\ RetornoSeparar
    /\ llamada.nombre = T_BOGOTA_UNICENTRO
    /\ retorno.val = <<<<"BOGOTA">>, <<"UNICENTRO">>>>

----------------------------------------------------------------------------
(* C17 *)

\* the label passes the filter that the reshaper applies before it calls
\* the resolver: procesar_promotora keeps the cells that are not missing
\* and whose stripped text is not empty (a number has no text and is
\* kept), procesar_makro the cells that are neither missing, '' nor ' '
LlegaAlResolver ==
    \/ /\ llamada.fn = "separar_tienda_ciudad"
       /\ ~isna(llamada.nombre)
       /\ strip(llamada.nombre) # <<>>
    \/ /\ llamada.fn = "separar_tienda_ciudad_makro"
       /\ TextoPresente(llamada.nombre)

\* C17: both resolvers return a (store, city) pair, and never raise, for
\* every label that can reach them from the reshapers: texts that are
\* blank or hold only hyphens, and cells that are not a text, included.
C17_Claim ==
    (pc = "retornado" /\ LlegaAlResolver) =>
        /\ ~Raised(retorno)
        /\ Len(retorno.val) = 2

----------------------------------------------------------------------------
(* C18 *)

RetornoNumeroMes ==
    pc = "retornado" /\ llamada.fn = "obtener_numero_mes"

\* C18: obtener_numero_mes returns the ordinal 1..12 (ENE = 1, DIC = 12) of
\* each of the 12 month codes, in whatever letter case the code is written
\* ('ENE', 'ene', 'Ene').
C18_Claim ==
    (RetornoNumeroMes /\ upper_palabra(llamada.nombre_mes) \in Range(MesesValidos))
    => /\ ~Raised(retorno)
       /\ retorno.val = Ordinal(upper_palabra(llamada.nombre_mes))

----------------------------------------------------------------------------
(* C19 *)

\* texts that are none of the 12 month codes in any letter case
CodigosNoReconocidos == {"XYZ", "xyz", "ENERO", "13", ""}

\* the loaded history holds a row of c whose month is no month code
ConCodigoInvalido(c) ==
    /\ ~SinHistoria(c)
    /\ ~ConMesesValidos(datos.tabla_sell_out_consolidado, Empresa(c))

\* C19: obtener_numero_mes and obtener_siguiente_mes raise for every text
\* that is not one of the 12 month codes; when the history of a client
\* holds such a month the lookup of the client returns an error and no next
\* period, the client is not processable and adds no row, and the run goes
\* on with the other clients.
C19_CodigoInvalido ==
    /\ \A w \in CodigosNoReconocidos :
          /\ Raised(obtener_numero_mes(w))
          /\ \A a \in Anios : Raised(obtener_siguiente_mes(w, a))
    /\ EnCorrida =>
          \A c \in Range(Clientes) :
              ConCodigoInvalido(c) =>
                  /\ EsError(obtener_ultimo_mes_cliente(
                                 datos.tabla_sell_out_consolidado, Empresa(c)))
                  /\ ~datos.validaciones[c].procesable
                  /\ TablaDelCliente(datos, c) = None
                  /\ retornos.sell_out[c] \in {NoLlamado, Tupla(None, None)}
                  /\ SinFilasNuevasDe(c)
                  /\ LosDemasProcesados(c)

\* PROMOTORA has a well named file and a row of month XYZ; MAKRO was appended
C19_Witness ==
    /\ pc = "fin"
    /\ ConCodigoInvalido("PROMOTORA")
    /\ NombreConMes(config["PROMOTORA"], "PROMOTORA")
    /\ MesDelNombre(config["PROMOTORA"]) = "JUL"
    /\ retornos.ciudades["PROMOTORA"] = Tupla(None, None)
    /\ FilasDe(NuevasCiudades, "MAKRO") # <<>>

----------------------------------------------------------------------------
(* C20 *)

\* product id, client, month, year, store, city, description, units,
\* month number
ColumnasCanonicas ==
    <<"EAN", "cliente", "Mes", "anio", "Tienda", "Ciudad", "Descripcion",
      "Unidades", "NumMes">>

CamposDelResumen == {"Mes", "anio", "cliente", "Unidades", "NumMes"}

\* C20: the detail rows that each of the three reshapers returns have the
\* same columns in the canonical order (product id, client, month, year,
\* store, city, description, units, month number), and every summary has
\* exactly the fields month, year, client, units and month number.
C20_Claim ==
    EnCorrida =>
        \A c \in Range(Clientes) : \A r \in ResultadosDe(c) :
            /\ r.ventas.columnas = ColumnasCanonicas
            /\ DOMAIN r.consolidado = CamposDelResumen

----------------------------------------------------------------------------
(* C21: the sell-through quantity *)

RetornoCantidad ==
    pc = "retornado" /\ llamada.fn = "calcular_cantidad_sell_int"

EnTabla(k) == k \in {"15GR X 12UND X 32PQ", "48UND", "6UND"}

\* the multiplier the text gives a package label
MultiplicadorDelTexto(k) ==
    CASE k = "15GR X 12UND X 32PQ" -> 32
      [] k = "48UND" -> 48
      [] k = "6UND" -> 6
      [] OTHER -> 24

----------------------------------------------------------------------------
(* C22: rows without a store *)

\* a store cell that is neither missing nor blank
ConTienda(t) == ~isna(t) /\ strip(t) # <<>>

\* units, in the column the reshaper of c reads, of the raw rows of c whose
\* store cell is neither missing nor blank
UnidadesConTienda(c) ==
    CASE c = "PROMOTORA" ->
            SumaUnidades(SelectSeq(datos.tabla_cliente_promotora.filas,
                LAMBDA f : ConTienda(f.Dependencia)))
      [] c = "MAKRO" ->
            SumSeq([i \in DOMAIN datos.tabla_cliente_makro.filas |->
                IF /\ ConTienda(datos.tabla_cliente_makro.filas[i].Tienda)
                   /\ meses_makro[EsperadoDe(c)[1]] \in
                          DOMAIN datos.tabla_cliente_makro.filas[i].Cde
                   /\ datos.tabla_cliente_makro.filas[i].Cde[
                          meses_makro[EsperadoDe(c)[1]]] # NaNNumero
                THEN datos.tabla_cliente_makro.filas[i].Cde[
                          meses_makro[EsperadoDe(c)[1]]]
                ELSE 0])
      [] c = "FARMATODO" ->
            SumaUnidadesVendidas(SelectSeq(datos.tabla_cliente_farmatodo.filas,
                LAMBDA f : ConTienda(f.NOMBRE_TIENDA)))

\* C22: for each of the three reshapers, the raw rows whose store cell is
\* blank or missing are discarded before the aggregation: no detail row of
\* a result has a blank or missing store, and the units of the summary do
\* not exceed the units of the raw rows that have a store.
C22_Claim ==
    EnCorrida =>
        \A c \in Range(Clientes) : \A r \in ResultadosDe(c) :
            /\ \A i \in DOMAIN r.ventas.filas : ConTienda(r.ventas.filas[i].Tienda)
            /\ r.consolidado.Unidades <= UnidadesConTienda(c)

----------------------------------------------------------------------------
(* C23 *)

\* C23: for a label that is no override and is not two non-empty parts
\* around one hyphen (it has no hyphen, more than one hyphen, or an empty
\* side), separar_tienda_ciudad returns (the whole trimmed label,
\* 'CIUDAD DESCONOCIDA').
C23_Claim ==
    (/\ RetornoSeparar
     /\ EsTexto(llamada.nombre)
     /\ \A par \in ParesFijos : strip(llamada.nombre) # par[1]
     /\ \A k \in DOMAIN llamada.nombre : ~DosPartes(llamada.nombre, k))
    => /\ ~Raised(retorno)
       /\ retorno.val = <<strip(llamada.nombre), CIUDAD_DESCONOCIDA>>

----------------------------------------------------------------------------
(* C24 *)

RetornoSepararMakro ==
    pc = "retornado" /\ llamada.fn = "separar_tienda_ciudad_makro"

\* the label with a store code and a hyphen in front of it
ConCodigo(t) == <<"12", "-">> \o t

\* C24: separar_tienda_ciudad_makro returns for a store text T what it
\* returns for '<code>-T'; 'CALI - NORTE' gives ('NORTE', 'CALI') with the
\* code and without it.
C24_Claim ==
    (RetornoSepararMakro /\ EsTexto(llamada.nombre)) =>
        /\ retorno = separar_tienda_ciudad_makro(ConCodigo(llamada.nombre))
        /\ llamada.nombre = CALI_NORTE =>
              retorno.val = <<<<"NORTE">>, <<"CALI">>>>

----------------------------------------------------------------------------
(* C25 *)

\* the text of the store in a label: what follows the store code and its
\* hyphen when the label starts with a code, the whole label when not
TextoDeTienda(t) ==
    IF /\ Len(split_guion_1(t)) = 2
       /\ Len(strip(split_guion_1(t)[1])) = 1
       /\ strip(split_guion_1(t)[1])[1] \in {"3", "7", "12", "30"}
    THEN upper(strip(split_guion_1(t)[2]))
    ELSE upper(strip(t))

\* C25: for a label that is not missing, whose store text in upper case is
\* no override and is not two parts around ' - ', separar_tienda_ciudad_makro
\* returns ('Tienda Unica', the whole trimmed store text in upper case).
C25_Claim ==
    (/\ RetornoSepararMakro
     /\ EsTexto(llamada.nombre)
     /\ TextoDeTienda(llamada.nombre) \notin
            {MAKRO_CALLE_30, ESTACION_POBLADO, CALI_NORTE}
     /\ PosicionesEspGuionEsp(TextoDeTienda(llamada.nombre)) = {})
    => /\ ~Raised(retorno)
       /\ retorno.val = <<TIENDA_UNICA, TextoDeTienda(llamada.nombre)>>

----------------------------------------------------------------------------
(* C26: the columns of the other months *)

\* the Makro sheet of d with the value v + i written, in row i, in every
\* month column other than the one of the expected month
ConOtrosMeses(d, v) ==
    [d EXCEPT !.tabla_cliente_makro.filas =
        [i \in DOMAIN @ |->
            [@[i] EXCEPT !.Cde =
                [m \in DOMAIN @ |->
                    IF m = meses_makro[EsperadoDe("MAKRO")[1]] THEN @[m]
                    ELSE IF v = NaNNumero THEN NaNNumero ELSE v + i]]]]

ValoresAjenos == {NaNNumero, 40}

\* C26: procesar_makro reads the units in the column of the expected month
\* only: with other values in the columns of the other months it returns
\* the same detail rows and the same summary as the call of the run.
C26_SoloElMesEsperado ==
    (EnCorrida /\ TablaDelCliente(datos, "MAKRO") # None) =>
        \E devuelto \in {procesar_makro(datos)} :
            /\ retornos.sell_out["MAKRO"].tipo # "no_llamado" =>
                  retornos.sell_out["MAKRO"] = devuelto
            /\ \A v \in ValoresAjenos :
                  procesar_makro(ConOtrosMeses(datos, v)) = devuelto

\* the reshaper has returned the 25 units of July from a sheet that also
\* holds units of June and of August
C26_Witness ==
    /\ pc = "fin"
    /\ TablaDelCliente(datos, "MAKRO") # None
    /\ {"Junio", "Julio", "Agosto"} \subseteq datos.tabla_cliente_makro.columnas
    /\ retornos.sell_out["MAKRO"].tipo = "tupla"
    /\ retornos.sell_out["MAKRO"].consolidado.Mes = "JUL"
    /\ retornos.sell_out["MAKRO"].consolidado.Unidades = 25
    /\ \E v \in ValoresAjenos : ConOtrosMeses(datos, v) # datos

----------------------------------------------------------------------------
(* C27: the same file given again *)

\* an installed run has appended, for client c, the summary of the month
\* that the name of the file of c carries in this run
YaAnexado(c) ==
    /\ NombreConMes(config[c], c)
    /\ \E i \in DOMAIN anexados.sell_out :
          /\ anexados.sell_out[i].cliente = Empresa(c)
          /\ anexados.sell_out[i].Mes = MesDelNombre(config[c])

\* C27: once a run has appended the period of a month for a client and the
\* written tables have become the history, a run that is given the file
\* of that month again appends no row of that client to either table.
C27_MismoArchivoOtraVez ==
    EnCorrida =>
        \A c \in Range(Clientes) : YaAnexado(c) => SinFilasNuevasDe(c)

\* the second run has written both tables and was given the July file of
\* MAKRO again, while PROMOTORA gained its rows of August
C27_Witness ==
    /\ pc = "fin"
    /\ YaAnexado("MAKRO")
    /\ MesDelNombre(config["MAKRO"]) = "JUL"
    /\ \E i \in DOMAIN archivo_sell_out :
          /\ archivo_sell_out[i].cliente = MAKRO_SUPERMAYORISTA_SAS
          /\ archivo_sell_out[i].Mes = "JUL"
    /\ \E i \in DOMAIN NuevasSellOut :
          NuevasSellOut[i].cliente = PROMOTORA_DE_COMERCIO_SOCIAL

----------------------------------------------------------------------------
(* C28: the form of a file name *)

RetornoValidarFormato ==
    pc = "retornado" /\ llamada.fn = "validar_formato_nombre_archivo"

\* the name is MES_CLIENTE.xlsx: a month code in any case, '_', the client
\* in any case and the extension
FormaMesCliente(escrito, tipo_cliente) ==
    /\ Len(escrito) = 4
    /\ upper_palabra(escrito[1]) \in Range(MesesValidos)
    /\ escrito[2] = "_"
    /\ upper_palabra(escrito[3]) = upper_palabra(tipo_cliente)
    /\ escrito[4] = ".xlsx"

\* C28: validar_formato_nombre_archivo accepts a file name exactly when it
\* is MES_CLIENTE.xlsx with one of the 12 month codes and the expected
\* client, both in any case; it then returns (True, the month code in upper
\* case, no error), and otherwise (False, no month, an error message).
C28_Claim ==
    RetornoValidarFormato =>
        IF FormaMesCliente(llamada.nombre_archivo, llamada.tipo_cliente)
        THEN retorno = <<TRUE, upper_palabra(llamada.nombre_archivo[1]), None>>
        ELSE /\ retorno[1] = FALSE
             /\ retorno[2] = NoneCadena
             /\ retorno[3] # None

----------------------------------------------------------------------------
(* C29: the two passes of a run *)

\* C29: in a run that writes both tables, the second call of each reshaper
\* returns what the first call returned; for every client the summary
\* appended to the aggregate table and the detail rows appended to the
\* city-level table carry the same period and the same total of units; and
\* a client gains a summary row exactly when it gains detail rows.
C29_Claim ==
    pc = "fin" =>
        \A c \in Range(Clientes) :
            /\ retornos.ciudades[c] = retornos.sell_out[c]
            /\ \A r \in ResultadosDe(c) :
                  /\ \A i \in DOMAIN retornos.ciudades[c].ventas.filas :
                        /\ MesDenota(retornos.ciudades[c].ventas.filas[i].Mes,
                                     r.consolidado.Mes)
                        /\ retornos.ciudades[c].ventas.filas[i].anio =
                               r.consolidado.anio
                  /\ r.consolidado.Unidades =
                         SumaUnidades(retornos.ciudades[c].ventas.filas)
            /\ (\E i \in DOMAIN NuevasSellOut :
                    NuevasSellOut[i].cliente = Empresa(c))
               <=> (\E i \in DOMAIN NuevasCiudades :
                       NuevasCiudades[i].cliente = Empresa(c))

----------------------------------------------------------------------------
(* C30: the new sales records *)

RetornoFiltrar ==
    pc = "retornado" /\ llamada.fn = "filtrar_registros_nuevos_ventas"

\* the input rows dated on the latest date of the consolidated table or later
DesdeLaFechaMaxima ==
    SelectSeq(llamada.df_entrada,
        LAMBDA f : \A i \in DOMAIN llamada.df_consolidado :
                       llamada.df_consolidado[i].Fecha <= f.Fecha)

UltimoDelConsolidado == llamada.df_consolidado[Len(llamada.df_consolidado)]

\* positions, among those rows, of the rows equal to the last record
IgualesAlUltimo ==
    {i \in DOMAIN DesdeLaFechaMaxima :
        /\ DesdeLaFechaMaxima[i] = UltimoDelConsolidado
        /\ UltimoDelConsolidado.Cantidad_inv # NaNNumero}

\* how many rows of the table are equal to the row
Copias(tabla, fila) == Cardinality({i \in DOMAIN tabla : tabla[i] = fila})

\* C30: filtrar_registros_nuevos_ventas returns the input rows that, among
\* those dated on or after the latest date of the consolidated table, come
\* after the input row equal to the last record of the consolidated table;
\* it returns None when no input row equals that record; and it returns no
\* row that is already in the consolidated table (a row of which the
\* consolidated table holds as many copies as the input).
C30_Claim ==
    RetornoFiltrar =>
        /\ IgualesAlUltimo = {} => retorno = None
        /\ IgualesAlUltimo # {} =>
              /\ \E i \in IgualesAlUltimo :
                    retorno = Desde(DesdeLaFechaMaxima, i)
              /\ \A k \in DOMAIN retorno :
                    Copias(llamada.df_consolidado, retorno[k])
                        < Copias(llamada.df_entrada, retorno[k])

====
